---- MODULE Spec2Model ----
(***************************************************************************)
(* Chart-generation backend: the tool-calling agent loop                    *)
(* (createChartGenerationAgent), the remote tool client (MCPClient), the    *)
(* streaming adapter (streamAgentResponseToWebSocket), the WebSocket sink   *)
(* (WebSocketClient) and the $default route handler (handleMessage).        *)
(*                                                                          *)
(* One request is modelled from the handler's entry to the end of its       *)
(* background task.  Every outbound call (tool listing, completion call,    *)
(* tool call, post to the connection) is a step whose outcome the           *)
(* environment chooses.  Strings are sequences of tokens.                   *)
(***************************************************************************)
EXTENDS Integers, Sequences, FiniteSets, TLC

\* agent-config: const MAX_ITERATIONS = 15
MAX_ITERATIONS == 15

\* Bound of the environment: the weight of the departures of one request from
\* the plain run, in which every response asks for one tool call and carries
\* no text, and every tool call and every post to the connection succeeds.
\* Weight(...) below gives the weight of each departure.
MaxDeviations == 2

VARIABLES
    pc,          \* position of the request: handler, then the background task
    status,      \* statusCode returned by handleMessage (0: not returned yet)
    tools,       \* tool catalog fetched by getTools
    iteration,   \* the loop's iteration counter
    messages,    \* conversation history sent to the completion service
    response,    \* the completion-service response being processed
    ti,          \* index of the next tool_use block of the response
    toolResults, \* tool_result blocks collected in this round
    outbox,      \* client messages of the current event not yet posted
    err,         \* message of the error caught by the adapter
    log,         \* everything observable, in order: calls, events, sends
    prompt,      \* the prompt handed to the background task
    session,     \* Mcp-Session-Id of the request's tool client
    parked,      \* the locals of the other request while this one runs
    deviations   \* weight of the departures from the plain run so far

vars == <<pc, status, tools, iteration, messages, response, ti, toolResults,
          outbox, err, log, prompt, session, parked, deviations>>

None == "none"

\* no exception has been caught; no response has been received
NoError    == <<>>
NoResponse == [content |-> <<>>, stop_reason |-> None]

----------------------------------------------------------------------------
(* Strings as token sequences.  "{" "}" are braces, "p" a "key":value pair, *)
(* "v" a JSON scalar, "n" a newline, "F" the fence ```json, "f" a closing   *)
(* fence, anything else a word of prose.                                    *)

\* Array.prototype.join('\n') over the texts of the text blocks
RECURSIVE JoinLines(_)
JoinLines(texts) ==
    IF texts = <<>> THEN <<>>
    ELSE IF Len(texts) = 1 THEN texts[1]
    ELSE texts[1] \o <<"n">> \o JoinLines(Tail(texts))

\* depth of brace nesting after each token; -1 once a closing brace is unmatched
RECURSIVE Depth(_, _)
Depth(s, i) ==
    IF i = 0 THEN 0
    ELSE LET d == Depth(s, i - 1) IN
         IF d < 0 THEN -1
         ELSE IF s[i] = "{" THEN d + 1
         ELSE IF s[i] = "}" THEN d - 1
         ELSE d

\* "key":value pairs; the P_ tokens are the pairs of the key "prompt", the
\* K_ tokens the pairs of the keys "type", "data" and "error"
PairTokens == {"p", "P_text", "P_blank", "P_empty", "P_number",
               "K_type", "K_data", "K_error"}

\* JSON.parse succeeds: after dropping whitespace the text is one scalar
\* ("v": a number, a quoted string, true, false, null) or one object
JsonValid(text) ==
    LET s == SelectSeq(text, LAMBDA t : t # "n") IN
    \/ s = <<"v">>
    \/ /\ Len(s) >= 2
       /\ s[1] = "{"
       /\ \A i \in 1..Len(s) : s[i] \in {"{", "}"} \cup PairTokens
       /\ Depth(s, Len(s)) = 0
       /\ \A i \in 1..(Len(s) - 1) : Depth(s, i) > 0

\* the value JSON.parse returns for a valid text
JsonValue(text) == [json |-> SelectSeq(text, LAMBDA t : t # "n")]

\* String.prototype.indexOf('{'), 1-based, 0 when absent
IndexOfOpen(text) ==
    IF \E i \in 1..Len(text) : text[i] = "{"
    THEN CHOOSE i \in 1..Len(text) :
            text[i] = "{" /\ \A j \in 1..(i - 1) : text[j] # "{"
    ELSE 0

\* String.prototype.lastIndexOf('}'), 1-based, 0 when absent
LastIndexOfClose(text) ==
    IF \E i \in 1..Len(text) : text[i] = "}"
    THEN CHOOSE i \in 1..Len(text) :
            text[i] = "}" /\ \A j \in (i + 1)..Len(text) : text[j] # "}"
    ELSE 0

\* streaming.ts parseResultData (the agent-loop variant)
parseResultData(resultData) ==
    IF JsonValid(resultData) THEN JsonValue(resultData)
    ELSE LET startIdx == IndexOfOpen(resultData)
             endIdx   == LastIndexOfClose(resultData)
             slice    == SubSeq(resultData, startIdx, endIdx)
         IN IF startIdx # 0 /\ endIdx >= startIdx /\ JsonValid(slice)
            THEN JsonValue(slice)
            ELSE [type |-> "error",
                  message |-> "Failed to parse agent response as JSON",
                  original |-> resultData]

----------------------------------------------------------------------------
(* Wire messages of WebSocketClient *)

sendThought(content) == [type |-> "thought", content |-> content]
sendResult(data)     == [type |-> "result", data |-> data]
\* an error posted through the result channel
sendErrorAsResult(message) == [type |-> "result", data |-> [error |-> message]]
sendError(message)   == [error |-> message]

\* error-handler formatError: the message of the thrown Error
formatError(error) == [type |-> "error", message |-> error]

----------------------------------------------------------------------------
(* Log entries *)

\* headers built anew for every request: the listing goes out under the
\* identifier of the construction, every later call under another one
CallEntryFreshHeaders(target, id, ok) ==
    [kind |-> "call", target |-> target, id |-> id, ok |-> ok,
     session |-> IF target = "service" THEN None
                 ELSE IF target = "discover" THEN session ELSE "uuid_3"]

\* a call to the tool provider carries the session header of its client
CallEntry(target, id, ok) ==
    [kind |-> "call", target |-> target, id |-> id, ok |-> ok,
     session |-> IF target = "service" THEN None ELSE session]
EventEntry(ev)            == [kind |-> "event", ev |-> ev]
SendEntry(msg, ok)        == [kind |-> "send", msg |-> msg, ok |-> ok]
\* a line written by logger.error
LoggedEntry(text)         == [kind |-> "logged", text |-> text]

----------------------------------------------------------------------------
(* Streaming adapter: the client messages produced for one agent event *)

\* thoughts posted from the last text block to the first
RECURSIVE processAssistantMessageReversed(_)
processAssistantMessageReversed(content) ==
    IF content = <<>> THEN <<>>
    ELSE LET contentBlock == Head(content) IN
         processAssistantMessageReversed(Tail(content)) \o
         (IF contentBlock.type = "text" /\ contentBlock.text # <<>>
          THEN <<sendThought(contentBlock.text)>>
          ELSE <<>>)

\* an adapter that posts a thought for tool_use blocks as well
RECURSIVE processAssistantMessageAllBlocks(_)
processAssistantMessageAllBlocks(content) ==
    IF content = <<>> THEN <<>>
    ELSE LET contentBlock == Head(content) IN
         (IF contentBlock.type = "text"
          THEN (IF contentBlock.text # <<>>
                THEN <<sendThought(contentBlock.text)>> ELSE <<>>)
          ELSE <<sendThought(<<contentBlock.name>>)>>)
         \o processAssistantMessageAllBlocks(Tail(content))

\* streaming.ts processAssistantMessage: one thought per non-empty text block
RECURSIVE processAssistantMessage(_)
processAssistantMessage(content) ==
    IF content = <<>> THEN <<>>
    ELSE LET contentBlock == Head(content) IN
         (IF contentBlock.type = "text" /\ contentBlock.text # <<>>
          THEN <<sendThought(contentBlock.text)>>
          ELSE <<>>) \o processAssistantMessage(Tail(content))

\* streaming.ts processResultMessage
processResultMessage(message) ==
    IF message.subtype = "success"
    THEN <<sendResult(parseResultData(message.result))>>
    ELSE <<sendResult([error |-> <<"Agent processing failed:">> \o message.error])>>

\* an adapter that reports failed tool calls to the client
AdapterMessagesToolErrors(message) ==
    IF message.type = "assistant" THEN processAssistantMessage(message.content)
    ELSE IF message.type = "result" THEN processResultMessage(message)
    ELSE IF message.type = "tool_result" /\ "error" \in DOMAIN message.result
         THEN <<sendError(message.result.error)>>
    ELSE <<>>

\* an adapter that forwards tool requests as thoughts
AdapterMessagesWithToolUse(message) ==
    IF message.type = "assistant" THEN processAssistantMessage(message.content)
    ELSE IF message.type = "result" THEN processResultMessage(message)
    ELSE IF message.type = "tool_use" THEN <<sendThought(<<message.name>>)>>
    ELSE <<>>

\* streaming.ts streamAgentResponseToWebSocket, body of the for-await loop
AdapterMessages(message) ==
    IF message.type = "assistant" THEN processAssistantMessage(message.content)
    ELSE IF message.type = "result" THEN processResultMessage(message)
    ELSE <<>>

----------------------------------------------------------------------------
(* Tool client *)

\* outcomes of one JSON-RPC exchange with the tool provider (rpcCall)
RpcFailures == {"unreachable", "http_error", "bad_body", "error_envelope"}

\* the message of the Error rpcCall throws
RpcErrorMessage(outcome) ==
    CASE outcome = "unreachable"    -> <<"fetch failed">>
      [] outcome = "http_error"     ->
            <<"MCP request failed:", "status", "statusText", "-", "body">>
      [] outcome = "bad_body"       -> <<"Unexpected token in JSON">>
      [] outcome = "error_envelope" -> <<"MCP error:", "message">>

\* the message of the Error the Anthropic client throws for a failed call
ServiceErrorMessage == <<"Connection error.">>

\* a request to the completion service that never carries the catalog
ToolsParamDropped(catalog) == [model |-> "claude-haiku-4-5-20251001"]

\* agent-config lines 158-164: the request to the completion service; an
\* empty catalog is sent as tools: undefined, that is as no tools field
ToolsParam(catalog) ==
    IF Len(catalog) > 0
    THEN [model |-> "claude-haiku-4-5-20251001", tools |-> catalog]
    ELSE [model |-> "claude-haiku-4-5-20251001"]

\* tool payload the provider returns in this model
RowsPayload == [shape |-> "content_array",
                content |-> <<[type |-> "text", text |-> <<"rows">>]>>]

\* agent-config: "Format result for Claude"
FormatResult(result) ==
    CASE result.shape = "string"        -> result.text
      [] result.shape = "content_array" ->
            JoinLines([i \in 1..Len(result.content) |->
                IF "text" \in DOMAIN result.content[i] /\ result.content[i].text # <<>>
                THEN result.content[i].text
                ELSE <<"json(item)">>])
      [] result.shape = "content_other" -> <<"json(content)">>
      [] OTHER                          -> <<"json(result)">>

\* an item of a content array that is null: c.text throws a TypeError
NullItem == [null |-> TRUE]

\* the formatting throws: an item of the content array is null
FormatThrows(result) ==
    /\ result.shape = "content_array"
    /\ \E i \in 1..Len(result.content) : result.content[i] = NullItem

\* agent-config lines 236-240: the block pushed for a call that returned.
\* JSON.stringify(undefined) is undefined: the block of an absent result
\* has no content
SuccessBlock(toolUse, result) ==
    IF result.shape = "undefined"
    THEN [type |-> "tool_result", tool_use_id |-> toolUse.id]
    ELSE [type |-> "tool_result", tool_use_id |-> toolUse.id,
          content |-> FormatResult(result)]

----------------------------------------------------------------------------
(* Completion service: the responses the environment may give *)

ToolName(k)  == IF k = 1 THEN "list_tables" ELSE "execute_sql"
ToolUseId(k, j) == "toolu_" \o ToString(k) \o "_" \o ToString(j)

TextBlock(text) == [type |-> "text", text |-> text]
ToolUseBlock(k, j) ==
    [type |-> "tool_use", id |-> ToolUseId(k, j), name |-> ToolName(k), input |-> "args"]

Thinking(k) == <<"thinking" \o ToString(k)>>
AnswerText  == <<"here", "F", "{", "p", "p", "}", "f">>

\* the plain responses: the final answer, or a request for one tool call
AnswerResponse ==
    [content |-> <<TextBlock(AnswerText)>>, stop_reason |-> "end_turn"]
PlainResponse(k) ==
    [content |-> <<ToolUseBlock(k, 1)>>, stop_reason |-> "tool_use"]

\* responses that depart from the plain run: a final text without JSON, a
\* final answer in two text blocks with an empty one between them, a
\* response that ends the turn and still holds a tool call, a tool request
\* with text, a request for two tool calls
DeviatingResponses(k) ==
    { [content |-> <<TextBlock(<<"sorry">>)>>, stop_reason |-> "end_turn"],
      [content |-> <<TextBlock(<<"done">>), TextBlock(<<>>),
                     TextBlock(<<"{", "p", "}">>)>>,
       stop_reason |-> "end_turn"],
      [content |-> <<TextBlock(<<"stopping">>), ToolUseBlock(k, 1)>>,
       stop_reason |-> "end_turn"],
      [content |-> <<TextBlock(Thinking(k)), ToolUseBlock(k, 1)>>,
       stop_reason |-> "tool_use"],
      [content |-> <<ToolUseBlock(k, 1), ToolUseBlock(k, 2)>>,
       stop_reason |-> "tool_use"] }

toolUseBlocks(resp) == SelectSeq(resp.content, LAMBDA b : b.type = "tool_use")
textBlocks(resp)    == SelectSeq(resp.content, LAMBDA b : b.type = "text")

\* agent-config: toolUseBlocks.length === 0 || stop_reason === 'end_turn'
IsTerminal(resp) ==
    Len(toolUseBlocks(resp)) = 0 \/ resp.stop_reason = "end_turn"

\* a final text that takes in the input of the tool_use blocks as well
finalTextOfAllBlocks(resp) ==
    JoinLines([i \in 1..Len(resp.content) |->
                  IF resp.content[i].type = "text"
                  THEN resp.content[i].text
                  ELSE <<resp.content[i].input>>])

\* agent-config: textBlocks.map(b => b.text).join('\n')
finalText(resp) ==
    JoinLines([i \in 1..Len(textBlocks(resp)) |-> textBlocks(resp)[i].text])

\* weight of a response as a departure from the plain run
ResponseWeight(resp) ==
    IF Len(toolUseBlocks(resp)) > 1 THEN 2
    ELSE IF resp \in {AnswerResponse} \cup {PlainResponse(k) : k \in 1..MAX_ITERATIONS} THEN 0
    ELSE 1

\* the loop condition off by one
WhileConditionInclusive(i) == i <= MAX_ITERATIONS

\* agent-config line 153: while (iteration < MAX_ITERATIONS)
WhileCondition(i) == i < MAX_ITERATIONS

\* responses the completion service may give in round k
ServiceResponses(k) ==
    LET all == {r \in {AnswerResponse, PlainResponse(k)} \cup DeviatingResponses(k) :
                    deviations + ResponseWeight(r) <= MaxDeviations}
    IN \* without a tool catalog the service has no tool to ask for
       IF tools = <<>> THEN {r \in all : toolUseBlocks(r) = <<>>} ELSE all

\* outcomes of a tool call
ToolOutcomes == RpcFailures \cup {"ok"}

\* weight of an outcome of a tool call, of a completion-service call or of a
\* post, as a departure from the plain run
Weight(outcome) ==
    CASE outcome = "ok"             -> 0
      [] outcome = "error_envelope" -> 1
      [] outcome = "send_failed"    -> 1
      [] outcome = "service_failed" -> 1
      [] OTHER                      -> 2

\* the block of a failed call without its is_error mark
ToolResultBlockUnmarked(toolUse, outcome) ==
    [type |-> "tool_result", tool_use_id |-> toolUse.id,
     content |-> IF outcome \in RpcFailures
                 THEN <<"Error executing tool:">> \o RpcErrorMessage(outcome)
                 ELSE FormatResult(RowsPayload)]

\* a result block that names the tool instead of the call it answers
ToolResultBlockByName(toolUse, outcome) ==
    [type |-> "tool_result", tool_use_id |-> toolUse.name,
     content |-> IF outcome \in RpcFailures
                 THEN <<"Error executing tool:">> \o RpcErrorMessage(outcome)
                 ELSE FormatResult(RowsPayload)]

\* a result block that is marked as an error only for a JSON-RPC error
\* envelope, not for a failed transport
ToolResultBlockEnvelopeOnly(toolUse, outcome) ==
    IF outcome = "error_envelope"
    THEN [type |-> "tool_result", tool_use_id |-> toolUse.id,
          content |-> <<"Error executing tool:">> \o RpcErrorMessage(outcome),
          is_error |-> TRUE]
    ELSE [type |-> "tool_result", tool_use_id |-> toolUse.id,
          content |-> IF outcome \in RpcFailures
                      THEN RpcErrorMessage(outcome)
                      ELSE FormatResult(RowsPayload)]

\* agent-config lines 236-260: the tool_result block pushed for a call
ToolResultBlock(toolUse, outcome) ==
    IF outcome \in RpcFailures
    THEN [type |-> "tool_result", tool_use_id |-> toolUse.id,
          content |-> <<"Error executing tool:">> \o RpcErrorMessage(outcome),
          is_error |-> TRUE]
    ELSE [type |-> "tool_result", tool_use_id |-> toolUse.id,
          content |-> FormatResult(RowsPayload)]

\* error-handler handleError
handleError(error) == formatError(error)

\* the adapter's messages for a run of events, in order
RECURSIVE AdapterMessagesOfAll(_)
AdapterMessagesOfAll(events) ==
    IF events = <<>> THEN <<>>
    ELSE AdapterMessages(Head(events)) \o AdapterMessagesOfAll(Tail(events))

----------------------------------------------------------------------------
(* Request bodies of the $default route *)

Bodies ==
    { None,                                   \* no body
      <<"hello">>,                            \* no JSON object in it
      <<"{", "oops", "}">>,                   \* braces around invalid JSON
      <<"{", "p", "}">>,                      \* an object without a prompt
      <<"{", "P_number", "}">>,               \* prompt is not a string
      <<"{", "P_empty", "}">>,                \* prompt is ""
      <<"{", "P_blank", "}">>,                \* prompt is whitespace
      <<"{", "P_text", "}">>,                 \* a valid request
      <<"junk", "{", "P_text", "}", "junk">>  \* a valid request inside other text
    }

PromptText == <<"show", "3", "items", "as", "a", "bar", "chart">>

\* index.ts handleMessage, lines 60-100: the error sent for the body, or
\* None when the body carries a usable prompt
ValidationError(body) ==
    IF body = None THEN <<"Request body is required">>
    ELSE LET startIdx == IndexOfOpen(body)
             endIdx   == LastIndexOfClose(body)
             jsonStr  == SubSeq(body, startIdx, endIdx)
         IN IF startIdx = 0 \/ endIdx < startIdx \/ ~JsonValid(jsonStr)
            THEN <<"Invalid JSON in request body">>
            ELSE IF \A i \in 1..Len(jsonStr) : jsonStr[i] \notin {"P_text", "P_blank"}
            THEN <<"Request must include a prompt field">>
            ELSE IF \E i \in 1..Len(jsonStr) : jsonStr[i] = "P_blank"
            THEN <<"Prompt cannot be empty">>
            ELSE None

----------------------------------------------------------------------------
Init ==
    /\ pc = "handler"
    /\ status = 0
    /\ tools = <<>>
    /\ iteration = 0
    /\ messages = <<>>
    /\ response = NoResponse
    /\ ti = 0
    /\ toolResults = <<>>
    /\ outbox = <<>>
    /\ err = NoError
    /\ log = <<>>
    /\ prompt = None
    /\ session = None
    /\ parked = [id |-> 0]
    /\ deviations = 0

\* a generator that runs on while the adapter still has messages to post
GeneratorRunsAhead == TRUE

\* streaming.ts line 30, for await: the generator is resumed only when the
\* adapter has posted the messages of the event it was handed
AdapterIdle == outbox = <<>>

\* The generator has yielded `events`: they are logged and the adapter's
\* messages for them are queued; `next` is where the generator resumes.
Yield(events, next) ==
    LET box == outbox \o AdapterMessagesOfAll(events) IN
    /\ outbox' = box
    /\ pc' = IF next = "returned" /\ box = <<>> THEN "done" ELSE next

\* index.ts handleMessage: a refused body
HandleInvalid ==
    /\ pc = "handler"
    /\ \E body \in Bodies, ok1 \in BOOLEAN, ok2 \in BOOLEAN :
        /\ ValidationError(body) # None
        /\ IF ok1
           THEN /\ log' = log \o <<SendEntry(sendError(ValidationError(body)), TRUE)>>
                /\ status' = 400
           ELSE \* the send throws: outer catch, second sendError inside try/catch
                /\ log' = log \o <<SendEntry(sendError(ValidationError(body)), FALSE),
                                   SendEntry(sendError(formatError(<<"send failed">>).message), ok2)>>
                /\ status' = 500
    /\ pc' = "refused"
    /\ UNCHANGED parked
    /\ UNCHANGED <<session, tools, iteration, messages, response, ti, toolResults,
                   outbox, err, prompt, deviations>>

\* index.ts handleMessage: a valid prompt starts the task and returns 200
HandleValid ==
    /\ pc = "handler"
    /\ \E body \in Bodies :
        /\ ValidationError(body) = None
        /\ prompt' = PromptText
    /\ status' = 200
    /\ pc' = "construct"
    /\ UNCHANGED parked
    /\ UNCHANGED <<session, tools, iteration, messages, response, ti, toolResults,
                   outbox, err, log, deviations>>

\* crypto randomUUID: an identifier no other client of the process has
randomUUID ==
    IF parked.id # 0 /\ parked.session = "uuid_1" THEN "uuid_2" ELSE "uuid_1"

\* agent-config lines 139-142: new Anthropic(), createMCPClient()
Construct ==
    /\ pc = "construct"
    /\ \E cfg \in {"ok", "no_api_key", "no_mcp_config"} :
        IF cfg = "ok"
        THEN /\ pc' = "discover"
             /\ session' = randomUUID
             /\ err' = err
        ELSE /\ pc' = "catch"
             /\ session' = session
             /\ err' = IF cfg = "no_api_key"
                       THEN <<"Could not resolve authentication method.">>
                       ELSE <<"Missing Supabase MCP configuration.">>
    /\ UNCHANGED parked
    /\ UNCHANGED <<status, tools, iteration, messages, response, ti, toolResults,
                   outbox, log, prompt, deviations>>

\* rpcCall threw: tools/list returned no result
NoResult == [thrown |-> TRUE]

\* results of tools/list: a list of tools, an empty list, a result without
\* a tools list
ListingReplies ==
    { [tools |-> <<"list_tables", "execute_sql">>],
      [tools |-> <<>>],
      [serverInfo |-> "supabase"] }

\* MCPClient.getTools: (result?.tools || []).map(...)
getTools(result) == IF "tools" \in DOMAIN result THEN result.tools ELSE <<>>

\* a loop that goes on without a catalog when the listing fails
DiscoverSwallowsFailure ==
    /\ pc = "discover"
    /\ \/ \E failure \in RpcFailures :
            /\ tools' = <<>>
            /\ log' = log \o <<CallEntry("discover", NoResult, FALSE)>>
       \/ \E result \in ListingReplies :
            /\ tools' = getTools(result)
            /\ log' = log \o <<CallEntry("discover", result, TRUE)>>
    /\ messages' = <<[role |-> "user", content |-> prompt]>>
    /\ pc' = "loop"
    /\ UNCHANGED parked
    /\ UNCHANGED <<session, status, iteration, response, ti, toolResults, outbox, err, prompt,
                   deviations>>

\* agent-config lines 143-148: getTools(), then the conversation is seeded
Discover ==
    /\ pc = "discover"
    /\ \/ \E failure \in RpcFailures :
            /\ log' = log \o <<CallEntry("discover", NoResult, FALSE)>>
            /\ err' = RpcErrorMessage(failure)
            /\ pc' = "catch"
            /\ UNCHANGED <<tools, messages>>
       \/ \E result \in ListingReplies :
            /\ tools' = getTools(result)
            /\ log' = log \o <<CallEntry("discover", result, TRUE)>>
            /\ messages' = <<[role |-> "user", content |-> prompt]>>
            /\ pc' = "loop"
            /\ err' = err
    /\ UNCHANGED parked
    /\ UNCHANGED <<session, status, iteration, response, ti, toolResults, outbox, prompt,
                   deviations>>

\* a loop that tries the next round after a failed completion-service call
CallServiceRetrying ==
    /\ pc = "loop"
    /\ AdapterIdle
    /\ WhileCondition(iteration)
    /\ iteration' = iteration + 1
    /\ \/ /\ deviations + Weight("service_failed") <= MaxDeviations
          /\ deviations' = deviations + Weight("service_failed")
          /\ log' = log \o <<CallEntry("service", ToolsParam(tools), FALSE)>>
          /\ UNCHANGED <<response, outbox, pc>>
       \/ \E resp \in ServiceResponses(iteration + 1) :
            /\ response' = resp
            /\ deviations' = deviations + ResponseWeight(resp)
            /\ LET ev == [type |-> "assistant", content |-> resp.content] IN
               /\ log' = log \o <<CallEntry("service", ToolsParam(tools), TRUE),
                                  EventEntry(ev)>>
               /\ Yield(<<ev>>, "assistant")
    /\ UNCHANGED parked
    /\ UNCHANGED <<session, status, tools, messages, ti, toolResults, prompt, err>>

\* agent-config lines 153-175: one pass of the while loop up to the yield of
\* the assistant message
CallService ==
    /\ pc = "loop"
    /\ AdapterIdle
    /\ WhileCondition(iteration)
    /\ iteration' = iteration + 1
    /\ \/ \* the call throws
          /\ deviations + Weight("service_failed") <= MaxDeviations
          /\ deviations' = deviations + Weight("service_failed")
          /\ log' = log \o <<CallEntry("service", ToolsParam(tools), FALSE)>>
          /\ err' = ServiceErrorMessage
          /\ pc' = "catch"
          /\ UNCHANGED <<response, outbox>>
       \/ \E resp \in ServiceResponses(iteration + 1) :
            /\ response' = resp
            /\ deviations' = deviations + ResponseWeight(resp)
            /\ LET ev == [type |-> "assistant", content |-> resp.content] IN
               /\ log' = log \o <<CallEntry("service", ToolsParam(tools), TRUE),
                                  EventEntry(ev)>>
               /\ Yield(<<ev>>, "assistant")
            /\ err' = err
    /\ UNCHANGED parked
    /\ UNCHANGED <<session, status, tools, messages, ti, toolResults, prompt>>

\* a loop that yields the final success and goes on to the next round
FinishWithoutReturn ==
    /\ pc = "assistant"
    /\ AdapterIdle
    /\ IsTerminal(response)
    /\ LET ev == [type |-> "result", subtype |-> "success",
                  result |-> finalText(response)] IN
       /\ log' = log \o <<EventEntry(ev)>>
       /\ Yield(<<ev>>, "loop")
    /\ UNCHANGED parked
    /\ UNCHANGED <<session, status, tools, iteration, messages, response, ti, toolResults,
                   err, prompt, deviations>>

\* agent-config lines 177-196: the assistant message was consumed and the
\* response is terminal
Finish ==
    /\ pc = "assistant"
    /\ AdapterIdle
    /\ IsTerminal(response)
    /\ LET ev == [type |-> "result", subtype |-> "success",
                  result |-> finalText(response)] IN
       /\ log' = log \o <<EventEntry(ev)>>
       /\ Yield(<<ev>>, "returned")
    /\ UNCHANGED parked
    /\ UNCHANGED <<session, status, tools, iteration, messages, response, ti, toolResults,
                   err, prompt, deviations>>

\* an invocation the loop does not wait for: the tool_result event is
\* yielded while the call is still under way
InvocationNotAwaited(useEv, call, resEv) ==
    <<EventEntry(useEv), EventEntry(resEv), call>>

\* an invocation whose failed request is sent a second time
InvocationRetried(useEv, call, resEv) ==
    IF call.ok THEN <<EventEntry(useEv), call, EventEntry(resEv)>>
    ELSE <<EventEntry(useEv), call, call, EventEntry(resEv)>>

\* agent-config lines 204-221: yield tool_use, await callTool, yield
\* tool_result
Invocation(useEv, call, resEv) ==
    <<EventEntry(useEv), call, EventEntry(resEv)>>

\* a turn put in front of the conversation
unshift(list, turn) == <<turn>> \o list

\* a conversation that keeps the results of the tools and leaves the
\* responses of the completion service out
pushResultsOnly(list, turn) ==
    IF turn.role = "assistant" THEN list ELSE Append(list, turn)

\* agent-config lines 199 and 265: messages.push(turn)
push(list, turn) == Append(list, turn)

\* agent-config lines 198-275: one tool call.  Before the first call of a
\* round the assistant message is appended to the conversation; after the
\* last one the results are appended and the loop condition is tested.
CallTool ==
    /\ \/ pc = "tool"
       \/ pc = "assistant" /\ ~IsTerminal(response)
    /\ AdapterIdle
    /\ LET first   == pc = "assistant"
           t       == IF first THEN 1 ELSE ti
           history == IF first
                      THEN push(messages,
                                [role |-> "assistant", content |-> response.content])
                      ELSE messages
           results == IF first THEN <<>> ELSE toolResults
           toolUse == toolUseBlocks(response)[t]
           last    == t = Len(toolUseBlocks(response))
           useEv   == [type |-> "tool_use", name |-> toolUse.name, input |-> toolUse.input]
       IN \E outcome \in ToolOutcomes :
           LET failed  == outcome \in RpcFailures
               resEv   == IF failed
                          THEN [type |-> "tool_result", name |-> toolUse.name,
                                result |-> [error |-> RpcErrorMessage(outcome)]]
                          ELSE [type |-> "tool_result", name |-> toolUse.name,
                                result |-> RowsPayload]
               block   == ToolResultBlock(toolUse, outcome)
               capEv   == [type |-> "result", subtype |-> "error",
                           error |-> <<"Agent did not complete within",
                                       ToString(MAX_ITERATIONS), "iterations">>]
               exceeded == last /\ ~WhileCondition(iteration)
               yielded == <<useEv, resEv>> \o (IF exceeded THEN <<capEv>> ELSE <<>>)
           IN /\ deviations + Weight(outcome) <= MaxDeviations
              /\ deviations' = deviations + Weight(outcome)
              /\ log' = log \o Invocation(useEv, CallEntry("tool", toolUse.id, ~failed),
                                          resEv)
                            \o (IF exceeded THEN <<EventEntry(capEv)>> ELSE <<>>)
              /\ toolResults' = Append(results, block)
              /\ IF last
                 THEN /\ messages' = push(history,
                            [role |-> "user", content |-> Append(results, block)])
                      /\ ti' = 0
                      /\ Yield(yielded, IF exceeded THEN "returned" ELSE "loop")
                 ELSE /\ messages' = history
                      /\ ti' = t + 1
                      /\ Yield(yielded, "tool")
    /\ UNCHANGED parked
    /\ UNCHANGED <<session, status, tools, iteration, response, err, prompt>>

\* websocket-client sendMessage for the next queued message; a failed post
\* is rethrown, leaves the for-await loop and lands in the adapter's catch
Send ==
    /\ outbox # <<>>
    /\ pc \in {"assistant", "tool", "loop", "returned"}
    /\ \E ok \in BOOLEAN :
        /\ ~ok => deviations + Weight("send_failed") <= MaxDeviations
        /\ deviations' = IF ok THEN deviations ELSE deviations + Weight("send_failed")
        /\ log' = log \o <<SendEntry(Head(outbox), ok)>>
        /\ IF ok
           THEN /\ outbox' = Tail(outbox)
                /\ pc' = IF pc = "returned" /\ Tail(outbox) = <<>> THEN "done" ELSE pc
                /\ err' = err
           ELSE /\ outbox' = <<>>
                /\ pc' = "catch"
                /\ err' = <<"send failed">>
    /\ UNCHANGED parked
    /\ UNCHANGED <<session, status, tools, iteration, messages, response, ti, toolResults,
                   prompt>>

\* the catch block of a task the handler waits for: a rejection reaches the
\* handler's own catch and changes its response
CatchAwaited ==
    /\ pc = "catch"
    /\ \E ok \in BOOLEAN :
        /\ ~ok => deviations + Weight("send_failed") <= MaxDeviations
        /\ deviations' = IF ok THEN deviations ELSE deviations + Weight("send_failed")
        /\ log' = log \o <<SendEntry(sendError(handleError(err).message), ok)>>
        /\ pc' = IF ok THEN "done" ELSE "rejected"
        /\ status' = IF ok THEN status ELSE 500
    /\ UNCHANGED parked
    /\ UNCHANGED <<session, tools, iteration, messages, response, ti, toolResults,
                   outbox, err, prompt>>

\* streaming.ts lines 48-56: the adapter's catch block
Catch ==
    /\ pc = "catch"
    /\ \E ok \in BOOLEAN :
        /\ ~ok => deviations + Weight("send_failed") <= MaxDeviations
        /\ deviations' = IF ok THEN deviations ELSE deviations + Weight("send_failed")
        /\ log' = log \o <<SendEntry(sendError(handleError(err).message), ok)>>
        /\ pc' = IF ok THEN "done" ELSE "rejected"
    /\ UNCHANGED parked
    /\ UNCHANGED <<session, status, tools, iteration, messages, response, ti, toolResults,
                   outbox, err, prompt>>

\* index.ts lines 110-115: the catch callback on the task's promise
OnRejection ==
    /\ pc = "rejected"
    /\ log' = log \o <<LoggedEntry("Unhandled error in agent streaming")>>
    /\ pc' = "observed"
    /\ UNCHANGED parked
    /\ UNCHANGED <<session, status, tools, iteration, messages, response, ti, toolResults,
                   outbox, err, prompt, deviations>>

Next ==
    \/ HandleInvalid
    \/ HandleValid
    \/ Construct
    \/ Discover
    \/ CallService
    \/ Finish
    \/ CallTool
    \/ Send
    \/ Catch
    \/ OnRejection

Spec == Init /\ [][Next]_vars

----------------------------------------------------------------------------
(* The LangGraph variant of the adapter: streamAgentResponseToWebSocket     *)
(* consumes the update steps of agent.stream and decides for every message  *)
(* whether it is a thought or the result.                                   *)

\* steps a stream may yield
MaxSteps == 5

\* String.prototype.trim: newlines at both ends are dropped
RECURSIVE Trim(_)
Trim(text) ==
    IF text = <<>> THEN <<>>
    ELSE IF Head(text) = "n" THEN Trim(Tail(text))
    ELSE IF text[Len(text)] = "n" THEN Trim(SubSeq(text, 1, Len(text) - 1))
    ELSE text

\* the index of the first token after position i that is not whitespace
\* (Len + 1 when there is none)
RECURSIVE SkipSpace(_, _)
SkipSpace(text, i) ==
    IF i + 1 > Len(text) THEN Len(text) + 1
    ELSE IF text[i + 1] = "n" THEN SkipSpace(text, i + 1)
    ELSE i + 1

\* the match of /<fence>\s*(\{[\s\S]*?\})\s*```/ : the leftmost opening
\* fence followed by a brace, then the shortest span up to a closing brace
\* that is followed by a fence; <<>> when nothing matches.  The closing ```
\* also matches the first characters of ```json.
FencedMatch(text, fence) ==
    LET Closes(j, k) == /\ text[k] = "}"
                        /\ SkipSpace(text, k) <= Len(text)
                        /\ text[SkipSpace(text, k)] \in {"f", "F"}
        Opens(i) == /\ text[i] = fence
                    /\ SkipSpace(text, i) <= Len(text)
                    /\ text[SkipSpace(text, i)] = "{"
                    /\ \E k \in (SkipSpace(text, i) + 1)..Len(text) :
                          Closes(SkipSpace(text, i), k)
        starts == {i \in 1..Len(text) : Opens(i)}
    IN IF starts = {} THEN <<>>
       ELSE LET i == CHOOSE a \in starts : \A b \in starts : a <= b
                j == SkipSpace(text, i)
                k == CHOOSE a \in (j + 1)..Len(text) :
                        /\ Closes(j, a)
                        /\ \A b \in (j + 1)..(a - 1) : ~Closes(j, b)
            IN SubSeq(text, j, k)

\* String.prototype.includes('"type"') and the like: a pair with that key
Includes(text, key) == \E i \in 1..Len(text) : text[i] = key

\* streaming.ts lines 326-335 and 342-351: the span from the first opening
\* to the last closing brace, when it parses; None otherwise
BraceSpan(text) ==
    LET startIdx == IndexOfOpen(text)
        endIdx   == LastIndexOfClose(text)
        jsonStr  == SubSeq(text, startIdx, endIdx)
    IN IF startIdx # 0 /\ endIdx >= startIdx /\ JsonValid(jsonStr)
       THEN jsonStr ELSE None

\* streaming.ts extractJsonFromContent; None stands for null
extractJsonFromContent(content) ==
    LET trimmed == Trim(content) IN
    IF FencedMatch(trimmed, "F") # <<>> THEN FencedMatch(trimmed, "F")
    ELSE IF FencedMatch(trimmed, "f") # <<>> THEN FencedMatch(trimmed, "f")
    ELSE IF trimmed # <<>> /\ trimmed[1] = "{" /\ trimmed[Len(trimmed)] = "}"
         THEN (IF JsonValid(trimmed) THEN trimmed ELSE None)
    ELSE IF Includes(trimmed, "K_type") /\ Includes(trimmed, "K_data")
            /\ IndexOfOpen(trimmed) # 0
            /\ LastIndexOfClose(trimmed) >= IndexOfOpen(trimmed)
         THEN BraceSpan(trimmed)
    ELSE IF Includes(trimmed, "K_error")
            /\ IndexOfOpen(trimmed) # 0
            /\ LastIndexOfClose(trimmed) >= IndexOfOpen(trimmed)
         THEN BraceSpan(trimmed)
    ELSE None

\* streaming.ts parseResultData (the LangGraph variant)
parseResultDataLangGraph(resultData) ==
    IF JsonValid(resultData) THEN JsonValue(resultData)
    ELSE LET startIdx == IndexOfOpen(resultData)
             endIdx   == LastIndexOfClose(resultData)
             slice    == SubSeq(resultData, startIdx, endIdx)
         IN IF startIdx # 0 /\ endIdx >= startIdx /\ JsonValid(slice)
            THEN JsonValue(slice)
            ELSE [error |-> "Failed to parse agent response as JSON",
                  original |-> resultData]

\* messages of a step: content is a string or an array of blocks; an AI
\* message may carry tool calls
StringContent(text)  == [kind |-> "string", text |-> text]
ArrayContent(blocks) == [kind |-> "array", blocks |-> blocks]
AIMessage(content, calls) == [type |-> "ai", content |-> content, tool_calls |-> calls]
ToolMessage(content) == [type |-> "tool", content |-> content]

\* Array.prototype.join('') over the texts of the blocks
RECURSIVE JoinBlocks(_)
JoinBlocks(blocks) ==
    IF blocks = <<>> THEN <<>>
    ELSE (IF Head(blocks).type = "text" THEN Head(blocks).text ELSE <<>>)
         \o JoinBlocks(Tail(blocks))

\* streaming.ts processMessage, lines 237-259: the text of a message
MessageText(message) ==
    IF message.content.kind = "string" THEN message.content.text
    ELSE JoinBlocks(message.content.blocks)

\* streaming.ts processMessage: the client messages posted for one message
processMessage(message) ==
    IF message.content = StringContent(<<>>) THEN <<>>
    ELSE IF \/ message.type = "tool"
            \/ /\ message.content.kind = "string"
               /\ message.content.text[1] = "[{schema"
    THEN <<>>
    ELSE LET content == MessageText(message) IN
         IF Trim(content) = <<>> THEN <<>>
         ELSE IF extractJsonFromContent(content) # None
         THEN <<sendResult(parseResultDataLangGraph(extractJsonFromContent(content)))>>
         ELSE <<sendThought(content)>>

RECURSIVE processMessages(_)
processMessages(msgs) ==
    IF msgs = <<>> THEN <<>>
    ELSE processMessage(Head(msgs)) \o processMessages(Tail(msgs))

ChartText == <<"here", "n", "F", "n", "{", "K_type", "K_data", "}", "n", "f">>

\* messages of the model node that ask for tools: without text, with text,
\* with text in blocks, with text that quotes an object
ToolCallMessages ==
    { AIMessage(StringContent(<<>>), TRUE),
      AIMessage(StringContent(<<"thinking">>), TRUE),
      AIMessage(ArrayContent(<<[type |-> "text", text |-> <<"thinking">>],
                               [type |-> "tool_use", id |-> "toolu_1"]>>), TRUE),
      AIMessage(StringContent(<<"querying", "{", "p", "K_error", "}", "now">>), TRUE) }

\* final messages of the model node: a fenced chart, a bare error object,
\* prose only, a fenced block that is not JSON
FinalMessages ==
    { AIMessage(StringContent(ChartText), FALSE),
      AIMessage(StringContent(<<"{", "K_error", "}">>), FALSE),
      AIMessage(StringContent(<<"sorry">>), FALSE),
      AIMessage(StringContent(<<"F", "{", "oops", "}", "f">>), FALSE) }

\* steps of the tools node: one output, two outputs, an output that is a
\* schema dump in a message of another type
ToolSteps ==
    { <<ToolMessage(StringContent(<<"rows">>))>>,
      <<ToolMessage(StringContent(<<"rows">>)), ToolMessage(StringContent(<<"rows">>))>>,
      <<[type |-> "generic", content |-> StringContent(<<"[{schema", "rows">>)]>> }

\* what the agent's graph does after the step `last` (<<>>: no step yet):
\* the model node runs first and after the tools node, the tools node runs
\* after a message with tool calls, the stream ends after a final message
StreamSteps(last) ==
    IF last = <<>> \/ last[1].type # "ai"
    THEN {<<m>> : m \in ToolCallMessages \cup FinalMessages}
    ELSE IF last[1].tool_calls THEN ToolSteps
    ELSE {}

StreamAtEnd(last) == last # <<>> /\ last[1].type = "ai" /\ ~last[1].tool_calls

StepEntry(step) == [kind |-> "step", step |-> step]
StepsTaken == Cardinality({i \in 1..Len(log) : log[i].kind = "step"})

InitLangGraph ==
    /\ pc = "create"
    /\ status = 200
    /\ tools = <<>>
    /\ iteration = 0
    /\ messages = <<>>
    /\ response = NoResponse
    /\ ti = 0
    /\ toolResults = <<>>
    /\ outbox = <<>>
    /\ err = NoError
    /\ log = <<>>
    /\ prompt = PromptText
    /\ session = None
    /\ parked = [id |-> 0]
    /\ deviations = 0

\* agent-config (LangGraph) createChartGenerationAgent: the key is checked,
\* the tools are listed, the stream is opened
LangGraphCreate ==
    /\ pc = "create"
    /\ \E outcome \in {"no_api_key", "no_mcp_config", "discover_failed", "ok"} :
        CASE outcome = "no_api_key" ->
                /\ err' = <<"Missing ANTHROPIC_API_KEY environment variable">>
                /\ pc' = "catch"
                /\ UNCHANGED <<tools, log>>
          [] outcome = "no_mcp_config" ->
                /\ err' = <<"Missing Supabase MCP configuration.">>
                /\ pc' = "catch"
                /\ UNCHANGED <<tools, log>>
          [] outcome = "discover_failed" ->
                /\ err' = RpcErrorMessage("error_envelope")
                /\ log' = log \o <<CallEntry("discover", NoResult, FALSE)>>
                /\ pc' = "catch"
                /\ UNCHANGED tools
          [] outcome = "ok" ->
                /\ tools' = <<"list_tables", "execute_sql">>
                /\ log' = log \o <<CallEntry("discover", [tools |-> tools'], TRUE)>>
                /\ pc' = "loop"
                /\ err' = err
    /\ UNCHANGED parked
    /\ UNCHANGED <<session, status, iteration, messages, response, ti, toolResults, outbox,
                   prompt, deviations>>

\* streaming.ts lines 168-194: the stream yields its next step, ends or
\* throws; the messages of a step are processed in order (messages holds
\* the messages of the last step)
LangGraphStep ==
    /\ pc = "loop"
    /\ outbox = <<>>
    /\ \/ /\ StepsTaken < MaxSteps
          /\ \E step \in StreamSteps(messages) :
                /\ log' = log \o <<StepEntry(step)>>
                /\ outbox' = processMessages(step)
                /\ messages' = step
          /\ UNCHANGED <<pc, err, deviations>>
       \/ /\ StreamAtEnd(messages)
          /\ pc' = "done"
          /\ UNCHANGED <<log, outbox, messages, err, deviations>>
       \/ /\ deviations + Weight("service_failed") <= MaxDeviations
          /\ deviations' = deviations + Weight("service_failed")
          /\ err' = ServiceErrorMessage
          /\ pc' = "catch"
          /\ UNCHANGED <<log, outbox, messages>>
    /\ UNCHANGED parked
    /\ UNCHANGED <<session, status, tools, iteration, response, ti, toolResults, prompt>>

\* the posts (sendMessage), the catch block (lines 203-212 are those of the
\* other variant) and the handler's callback are the same code
NextLangGraph ==
    \/ LangGraphCreate
    \/ LangGraphStep
    \/ Send
    \/ Catch
    \/ OnRejection

SpecLangGraph == InitLangGraph /\ [][NextLangGraph]_vars

----------------------------------------------------------------------------
(* Two requests in one process.  The tasks started by two calls of          *)
(* handleMessage run interleaved: at every await the event loop may go on   *)
(* with the other task.  Everything a task works on (the wsClient and the   *)
(* prompt passed to the adapter, the generator's anthropic, mcpClient,      *)
(* tools, messages and iteration) is a parameter or a local of its own      *)
(* call, so it is set aside with the task and found again when it resumes.  *)

OtherPromptText == <<"count", "orders", "per", "month">>

\* the locals of the running task, set aside for request `id`
Suspended(id) ==
    [id |-> id, pc |-> pc, status |-> status, tools |-> tools,
     iteration |-> iteration, messages |-> messages, response |-> response,
     ti |-> ti, toolResults |-> toolResults, outbox |-> outbox, err |-> err,
     log |-> log, prompt |-> prompt, session |-> session]

\* a counter kept in the module, which the resumed task finds as the other
\* task left it
SharedIteration(task) == iteration

\* agent-config line 151: let iteration = 0 is a local of the generator;
\* the resumed task finds its own counter
SavedIteration(task) == task.iteration

\* both requests were accepted by handleMessage, which answered 200 to each
\* and started its task; the completion service and the tool provider
\* answer plainly
InitConcurrent ==
    /\ pc = "construct"
    /\ status = 200
    /\ tools = <<>>
    /\ iteration = 0
    /\ messages = <<>>
    /\ response = NoResponse
    /\ ti = 0
    /\ toolResults = <<>>
    /\ outbox = <<>>
    /\ err = NoError
    /\ log = <<>>
    /\ prompt = PromptText
    /\ session = None
    /\ parked = [id |-> 2, pc |-> "construct", status |-> 200, tools |-> <<>>,
                 iteration |-> 0, messages |-> <<>>, response |-> NoResponse,
                 ti |-> 0, toolResults |-> <<>>, outbox |-> <<>>, err |-> NoError,
                 log |-> <<>>, prompt |-> OtherPromptText, session |-> None]
    /\ deviations = MaxDeviations

\* the running task awaits and the event loop resumes the other one
Switch ==
    /\ parked.id # 0
    /\ parked.pc \notin {"done", "observed"}
    /\ parked' = Suspended(3 - parked.id)
    /\ pc' = parked.pc
    /\ status' = parked.status
    /\ tools' = parked.tools
    /\ iteration' = SavedIteration(parked)
    /\ messages' = parked.messages
    /\ response' = parked.response
    /\ ti' = parked.ti
    /\ toolResults' = parked.toolResults
    /\ outbox' = parked.outbox
    /\ err' = parked.err
    /\ log' = parked.log
    /\ prompt' = parked.prompt
    /\ session' = parked.session
    /\ UNCHANGED deviations

NextConcurrent ==
    \/ Construct
    \/ Discover
    \/ CallService
    \/ Finish
    \/ CallTool
    \/ Send
    \/ Catch
    \/ Switch

SpecConcurrent == InitConcurrent /\ [][NextConcurrent]_vars

-----------------------------------------------------------------------------
(* One request from the moment handleMessage has started it: the adapter    *)
(* driving the agent loop, without the handler's validation                 *)

\* index.ts lines 103-115: streamAgentResponseToWebSocket is called with the
\* validated prompt and the handler has answered 200
InitStream ==
    /\ pc = "construct"
    /\ status = 200
    /\ tools = <<>>
    /\ iteration = 0
    /\ messages = <<>>
    /\ response = NoResponse
    /\ ti = 0
    /\ toolResults = <<>>
    /\ outbox = <<>>
    /\ err = NoError
    /\ log = <<>>
    /\ prompt = PromptText
    /\ session = None
    /\ parked = [id |-> 0]
    /\ deviations = 0

NextStream ==
    \/ Construct
    \/ Discover
    \/ CallService
    \/ Finish
    \/ CallTool
    \/ Send
    \/ Catch
    \/ OnRejection

SpecStream == InitStream /\ [][NextStream]_vars

\* the number of calls, events and posts so far: every step adds to it
Progress == <<pc, Len(log)>>

\* the same start, with one unit of the budget of departures already spent
InitStreamFair ==
    /\ pc = "construct"
    /\ status = 200
    /\ tools = <<>>
    /\ iteration = 0
    /\ messages = <<>>
    /\ response = NoResponse
    /\ ti = 0
    /\ toolResults = <<>>
    /\ outbox = <<>>
    /\ err = NoError
    /\ log = <<>>
    /\ prompt = PromptText
    /\ session = None
    /\ parked = [id |-> 0]
    /\ deviations = 1

\* every await of the task settles: a call or a post that was started
\* returns or throws, and the event loop runs the continuation
SpecStreamFair == InitStreamFair /\ [][NextStream]_vars /\ WF_Progress(NextStream)

----------------------------------------------------------------------------
(* Result extraction on its own: the service has given a terminal response  *)
(* with one text block, its thought is posted, and the loop and the adapter *)
(* go on from there to the result message                                   *)

\* longest final text
MaxTextLen == 5

\* tokens of a final text: braces, a pair, a newline, the fences and a word
TextTokens == {"{", "}", "p", "n", "F", "f", "w"}

FinalTexts == UNION {[1..n -> TextTokens] : n \in 0..MaxTextLen}

\* agent-config lines 158-175 and streaming.ts lines 30-33: the state after
\* the first response, a final text, was yielded and its thought posted
InitParse ==
    \E text \in FinalTexts :
        LET resp == [content |-> <<TextBlock(text)>>, stop_reason |-> "end_turn"]
            ev   == [type |-> "assistant", content |-> resp.content]
            sent == processAssistantMessage(resp.content)
        IN /\ pc = "assistant"
           /\ status = 200
           /\ tools = <<"list_tables", "execute_sql">>
           /\ iteration = 1
           /\ messages = <<[role |-> "user", content |-> PromptText]>>
           /\ response = resp
           /\ ti = 0
           /\ toolResults = <<>>
           /\ outbox = <<>>
           /\ err = NoError
           /\ log = <<[kind |-> "call", target |-> "discover",
                       id |-> [tools |-> <<"list_tables", "execute_sql">>],
                       ok |-> TRUE, session |-> "uuid_1"],
                      [kind |-> "call", target |-> "service",
                       id |-> ToolsParam(<<"list_tables", "execute_sql">>),
                       ok |-> TRUE, session |-> None],
                      EventEntry(ev)>>
                     \o [i \in 1..Len(sent) |-> SendEntry(sent[i], TRUE)]
           /\ prompt = PromptText
           /\ session = "uuid_1"
           /\ parked = [id |-> 0]
           /\ deviations = MaxDeviations

NextParse ==
    \/ Finish
    \/ Send

SpecParse == InitParse /\ [][NextParse]_vars

----------------------------------------------------------------------------
(* The formatting of a tool result on its own: the first response asked for *)
(* one tool call, the call has returned and its tool_result event has been  *)
(* yielded; what remains of the round is the formatting of the payload and  *)
(* the two pushes                                                           *)

\* longest content array of a payload
MaxItems == 3

\* items of a content array: with text, with an empty text, without text,
\* null
ContentItems == {[type |-> "text", text |-> <<"rows">>],
                 [type |-> "text", text |-> <<>>],
                 [type |-> "image"],
                 NullItem}

\* what callTool may return: a string, an object with a content array, an
\* object whose content is not an array, any other object, null, nothing
Payloads ==
    {[shape |-> "string", text |-> <<"rows">>],
     [shape |-> "string", text |-> <<>>],
     [shape |-> "content_other"],
     [shape |-> "object"],
     [shape |-> "null"],
     [shape |-> "undefined"]}
    \cup {[shape |-> "content_array", content |-> items] :
              items \in UNION {[1..n -> ContentItems] : n \in 0..MaxItems}}

\* agent-config lines 204-221: the state after yield tool_result
InitFormat ==
    \E result \in Payloads :
        LET resp  == PlainResponse(1)
            use   == toolUseBlocks(resp)[1]
            useEv == [type |-> "tool_use", name |-> use.name, input |-> use.input]
            resEv == [type |-> "tool_result", name |-> use.name, result |-> result]
        IN /\ pc = "format"
           /\ status = 200
           /\ tools = <<"list_tables", "execute_sql">>
           /\ iteration = 1
           /\ messages = <<[role |-> "user", content |-> PromptText],
                           [role |-> "assistant", content |-> resp.content]>>
           /\ response = resp
           /\ ti = 1
           /\ toolResults = <<>>
           /\ outbox = <<>>
           /\ err = NoError
           /\ log = <<[kind |-> "call", target |-> "discover",
                       id |-> [tools |-> <<"list_tables", "execute_sql">>],
                       ok |-> TRUE, session |-> "uuid_1"],
                      [kind |-> "call", target |-> "service",
                       id |-> ToolsParam(<<"list_tables", "execute_sql">>),
                       ok |-> TRUE, session |-> None],
                      EventEntry([type |-> "assistant", content |-> resp.content]),
                      EventEntry(useEv),
                      [kind |-> "call", target |-> "tool", id |-> use.id,
                       ok |-> TRUE, session |-> "uuid_1"],
                      EventEntry(resEv)>>
           /\ prompt = PromptText
           /\ session = "uuid_1"
           /\ parked = [id |-> 0]
           /\ deviations = MaxDeviations

\* agent-config lines 223-265: the payload is formatted and pushed as a
\* tool_result block; when the formatting throws, the catch yields a second
\* tool_result event and pushes an error block; the round's results are
\* appended to the conversation
FormatAndPush ==
    /\ pc = "format"
    /\ LET use    == toolUseBlocks(response)[ti]
           result == log[Len(log)].ev.result
           thrown == <<"Cannot read properties of null">>
           block  == IF FormatThrows(result)
                     THEN [type |-> "tool_result", tool_use_id |-> use.id,
                           content |-> <<"Error executing tool:">> \o thrown,
                           is_error |-> TRUE]
                     ELSE SuccessBlock(use, result)
       IN /\ log' = IF FormatThrows(result)
                    THEN Append(log, EventEntry([type |-> "tool_result", name |-> use.name,
                                                 result |-> [error |-> thrown]]))
                    ELSE log
          /\ toolResults' = Append(toolResults, block)
          /\ messages' = push(messages, [role |-> "user",
                                         content |-> Append(toolResults, block)])
    /\ ti' = 0
    /\ pc' = "loop"
    /\ UNCHANGED parked
    /\ UNCHANGED <<session, status, tools, iteration, response, outbox, err, prompt,
                   deviations>>

NextFormat == FormatAndPush

SpecFormat == InitFormat /\ [][NextFormat]_vars

-----------------------------------------------------------------------------
(* error-handler executeWithRetry on its own.  The variable ti holds the    *)
(* argument maxRetries, iteration holds the loop counter attempt, and the   *)
(* log records the invocations of the operation, the warnings and the way   *)
(* the promise settles.                                                     *)

\* largest maxRetries of a call
MaxRetries == 4

\* error-handler line 50: the default of baseDelay
baseDelay == 1000

RECURSIVE Pow2(_)
Pow2(n) == IF n = 0 THEN 1 ELSE 2 * Pow2(n - 1)

\* what one invocation of the operation may do: resolve with a value or
\* reject with an error
OperationOutcomes ==
    {[ok |-> TRUE, value |-> v] : v \in {"rows", "nothing"}}
    \cup {[ok |-> FALSE, error |-> e] : e \in {"timeout", "refused"}}

\* the caller's arguments: maxRetries below zero, zero, and up to MaxRetries
InitRetry ==
    /\ pc = "retry_enter"
    /\ ti \in -1..MaxRetries
    /\ iteration = 0
    /\ status = 0
    /\ tools = <<>>
    /\ messages = <<>>
    /\ response = NoResponse
    /\ toolResults = <<>>
    /\ outbox = <<>>
    /\ err = NoError
    /\ log = <<>>
    /\ prompt = <<>>
    /\ session = None
    /\ parked = [id |-> 0]
    /\ deviations = 0

\* a loop that takes the attempt after the last one for the last
LastAttemptOffByOne(attempt, maxRetries) == attempt = maxRetries

\* error-handler line 59: attempt === maxRetries - 1
LastAttempt(attempt, maxRetries) == attempt = maxRetries - 1

\* error-handler lines 56 and 75: the loop test; when it fails the function
\* throws after the loop
LoopTest(attempt) ==
    IF attempt < ti
    THEN /\ pc' = "retry_try"
         /\ log' = log
    ELSE /\ pc' = "retry_thrown"
         /\ log' = Append(log, EventEntry([type |-> "thrown",
                                            error |-> "Max retries exceeded"]))

\* error-handler lines 51-56: the call, up to the first loop test
EnterRetry ==
    /\ pc = "retry_enter"
    /\ LoopTest(0)
    /\ UNCHANGED <<status, tools, iteration, messages, response, ti, toolResults,
                   outbox, err, prompt, session, parked, deviations>>

\* error-handler lines 57-71: one invocation of the operation; its value is
\* returned, its error is rethrown on the last attempt and otherwise logged
\* before the timer is set
InvokeOperation ==
    /\ pc = "retry_try"
    /\ \E outcome \in OperationOutcomes :
         LET call == [kind |-> "call", target |-> "operation", attempt |-> iteration,
                      outcome |-> outcome]
         IN IF outcome.ok
            THEN /\ log' = log \o <<call, EventEntry([type |-> "returned",
                                                      value |-> outcome.value])>>
                 /\ pc' = "retry_returned"
            ELSE IF LastAttempt(iteration, ti)
            THEN /\ log' = log \o <<call, EventEntry([type |-> "thrown",
                                                      error |-> outcome.error])>>
                 /\ pc' = "retry_thrown"
            ELSE /\ log' = log \o <<call,
                            LoggedEntry(<<"Operation failed, retrying",
                                          ToString(iteration + 1), ToString(ti),
                                          ToString(baseDelay * Pow2(iteration))>>)>>
                 /\ pc' = "retry_wait"
    /\ UNCHANGED <<status, tools, iteration, messages, response, ti, toolResults,
                   outbox, err, prompt, session, parked, deviations>>

\* error-handler lines 71 and 56: the timer fires, attempt++ and the loop
\* test
TimerFires ==
    /\ pc = "retry_wait"
    /\ iteration' = iteration + 1
    /\ LoopTest(iteration + 1)
    /\ UNCHANGED <<status, tools, messages, response, ti, toolResults,
                   outbox, err, prompt, session, parked, deviations>>

NextRetry == EnterRetry \/ InvokeOperation \/ TimerFires

SpecRetry == InitRetry /\ [][NextRetry]_vars

----------------------------------------------------------------------------
(* Observations on the log *)

TaskStarted == status = 200
TaskEnded   == pc \in {"done", "rejected", "observed"}

IsCall(e, target) == e.kind = "call" /\ e.target = target
IsEvent(e, type)  == e.kind = "event" /\ e.ev.type = type
IsSend(e)         == e.kind = "send"

IsThoughtMsg(m) == "type" \in DOMAIN m /\ m.type = "thought"
IsResultMsg(m)  == "type" \in DOMAIN m /\ m.type = "result"
\* an error message: what sendError posts, or a message of type error
IsErrorMsg(m)   == "error" \in DOMAIN m \/ ("type" \in DOMAIN m /\ m.type = "error")
IsTerminalMsg(m) == IsResultMsg(m) \/ IsErrorMsg(m)

\* the posts to the connection, in order
Sends == SelectSeq(log, IsSend)
NumThoughts == Len(SelectSeq(Sends, LAMBDA e : IsThoughtMsg(e.msg)))
NumResults  == Len(SelectSeq(Sends, LAMBDA e : IsResultMsg(e.msg)))
NumErrors   == Len(SelectSeq(Sends, LAMBDA e : IsErrorMsg(e.msg)))

ServiceCallsUpTo(i) ==
    Cardinality({j \in 1..i : IsCall(log[j], "service")})
NumServiceCalls == ServiceCallsUpTo(Len(log))

CapEvent(e)     == IsEvent(e, "result") /\ e.ev.subtype = "error"
SuccessEvent(e) == IsEvent(e, "result") /\ e.ev.subtype = "success"
CapReached      == \E i \in 1..Len(log) : CapEvent(log[i])
FinalSuccess    == \E i \in 1..Len(log) : SuccessEvent(log[i])
SomeSendFailed  == \E i \in 1..Len(log) : IsSend(log[i]) /\ ~log[i].ok
FailedToolCall(e) == IsCall(e, "tool") /\ ~e.ok

\* an exception was thrown inside the agent loop and caught by the adapter
LoopThrew == err # NoError /\ err # <<"send failed">>

----------------------------------------------------------------------------
(* C1: every request run through the adapter hands exactly one terminal     *)
(* message (result or error) to the sink, after all its thoughts, and hands *)
(* nothing after it.                                                        *)
C1_ExactlyOneTerminalLast ==
    TaskStarted =>
        /\ \A i \in 1..Len(Sends) : IsTerminalMsg(Sends[i].msg) => i = Len(Sends)
        /\ TaskEnded => NumResults + NumErrors = 1

(* C2: when every round up to the cap asked for tool calls, the client gets *)
(* exactly one error message naming the exhausted budget and no result      *)
(* message.                                                                 *)
C2_CapSendsOneError ==
    (pc = "done" /\ CapReached /\ ~SomeSendFailed) =>
        /\ NumResults = 0
        /\ NumErrors = 1

(* C3: at no time have more than MAX_ITERATIONS completion-service calls    *)
(* been made.                                                               *)
C3_ServiceCallsWithinCap == NumServiceCalls <= MAX_ITERATIONS

C3_Witness == NumServiceCalls = MAX_ITERATIONS /\ pc = "done"

(* C4: a failed post of a thought never stops the agent loop: the loop      *)
(* still runs on to its own end (final success, a fatal service error or    *)
(* the cap).                                                                *)
C4_SendFailureNeverStopsLoop ==
    TaskEnded =>
        \A i \in 1..Len(log) :
            (IsSend(log[i]) /\ ~log[i].ok /\ IsThoughtMsg(log[i].msg)) =>
                \E j \in (i + 1)..Len(log) :
                    \/ IsEvent(log[j], "result")
                    \/ (IsCall(log[j], "service") /\ ~log[j].ok)

(* C5: an exception thrown inside the agent loop (client construction, tool *)
(* discovery, a completion-service call) ends in exactly one error message, *)
(* posted last, and in no result message.                                   *)
C5_LoopExceptionOneError ==
    (TaskEnded /\ LoopThrew) =>
        /\ NumErrors = 1
        /\ NumResults = 0
        /\ IsErrorMsg(Sends[Len(Sends)].msg)

C5_Witness ==
    /\ pc = "done"
    /\ LoopThrew
    /\ NumServiceCalls >= 2
    /\ NumThoughts >= 1

\* the tool_result blocks built so far: those of the conversation and those
\* of the round in progress
ToolResultBlocks ==
    {toolResults[i] : i \in 1..Len(toolResults)} \cup
    UNION {{messages[t].content[i] : i \in 1..Len(messages[t].content)} :
              t \in {u \in 2..Len(messages) : messages[u].role = "user"}}

MarkedAsError(block) == "is_error" \in DOMAIN block /\ block.is_error

\* the loop is neither between two tool calls of a round nor about to make
\* its next completion-service call
BetweenRounds == pc \in {"tool", "loop"}

(* C6 as stated: whenever a tool call fails, its tool_result block is       *)
(* marked is_error and the loop goes on to another completion-service call. *)
C6_FailedToolThenAnotherCall ==
    /\ LET blocks == ToolResultBlocks IN
       \A i \in 1..Len(log) : FailedToolCall(log[i]) =>
          \E b \in blocks : b.tool_use_id = log[i].id /\ MarkedAsError(b)
    /\ ~BetweenRounds =>
          \A i \in 1..Len(log) : FailedToolCall(log[i]) =>
              \E j \in (i + 1)..Len(log) : IsCall(log[j], "service")

(* C6 amended: whenever a tool call fails, its tool_result block (and only  *)
(* a failed call's block) is marked is_error; the loop goes on to another   *)
(* completion-service call, unless the call belongs to round                *)
(* MAX_ITERATIONS, after which the loop yields the budget-exceeded failure. *)
C6_FailedToolMarkedLoopContinues ==
    /\ LET blocks == ToolResultBlocks IN
       \A i \in 1..Len(log) : IsCall(log[i], "tool") =>
          /\ \E b \in blocks : b.tool_use_id = log[i].id
          /\ \A b \in blocks :
                b.tool_use_id = log[i].id => (MarkedAsError(b) <=> ~log[i].ok)
    /\ ~BetweenRounds =>
          \A i \in 1..Len(log) : FailedToolCall(log[i]) =>
              IF ServiceCallsUpTo(i) < MAX_ITERATIONS
              THEN \E j \in (i + 1)..Len(log) : IsCall(log[j], "service")
              ELSE \E j \in (i + 1)..Len(log) : CapEvent(log[j])

C6_Witness ==
    /\ pc = "done"
    /\ \E i \in 1..Len(log) :
          /\ FailedToolCall(log[i])
          /\ \E j \in (i + 1)..Len(log) : IsCall(log[j], "service")
    /\ \E i \in 1..Len(log) : IsCall(log[i], "tool") /\ log[i].ok

\* what may stand in the log right before an error message of the task
ErrorCause(e) ==
    \/ e.kind = "call" /\ ~e.ok /\ e.target \in {"discover", "service"}
    \/ e.kind = "send" /\ ~e.ok

(* C7: a failed tool call on its own causes no error message and does not   *)
(* end the request: every error message of the task follows a failed tool   *)
(* listing, a failed completion-service call, a failed post or a failed     *)
(* construction; right after a tool call the loop is still running, and a   *)
(* round of tool calls ends the run only as round MAX_ITERATIONS.           *)
C7_ToolFailureAloneNoError ==
    TaskStarted =>
        /\ \A i \in 1..Len(log) :
              (IsSend(log[i]) /\ IsErrorMsg(log[i].msg)) =>
                  (i = 1 \/ ErrorCause(log[i - 1]))
        /\ (log # <<>> /\ IsEvent(log[Len(log)], "tool_result")) => BetweenRounds
        /\ CapReached => NumServiceCalls = MAX_ITERATIONS

\* after two failed tool calls the request reached final success and its
\* result message was posted
C7_Witness ==
    /\ pc = "done"
    /\ Cardinality({i \in 1..Len(log) : FailedToolCall(log[i])}) >= 2
    /\ FinalSuccess
    /\ NumResults = 1
    /\ NumErrors = 0
    /\ ~SomeSendFailed

\* texts of the text blocks of the responses received so far
ResponseTexts ==
    UNION {{log[i].ev.content[b].text :
                b \in {c \in 1..Len(log[i].ev.content) :
                          log[i].ev.content[c].type = "text"}} :
              i \in {j \in 1..Len(log) : IsEvent(log[j], "assistant")}}

\* the final success event, when there is one
FinalResultText ==
    LET i == CHOOSE j \in 1..Len(log) : SuccessEvent(log[j]) IN log[i].ev.result

\* rounds whose response asked for tools and carried text
TextToolRounds ==
    {i \in 1..Len(log) :
        /\ IsEvent(log[i], "assistant")
        /\ \E b \in 1..Len(log[i].ev.content) : log[i].ev.content[b].type = "text"
        /\ \E b \in 1..Len(log[i].ev.content) : log[i].ev.content[b].type = "tool_use"}

(* C8: the text that is the final answer is posted only as the result and   *)
(* never also as a thought; after two tool-requesting turns with text and a *)
(* terminal turn with the answer, exactly two thoughts and one result were  *)
(* posted.                                                                  *)
C8_FinalAnswerNotAThought ==
    (pc = "done" /\ FinalSuccess /\ ~SomeSendFailed) =>
        /\ \A i \in 1..Len(Sends) :
              IsThoughtMsg(Sends[i].msg) => Sends[i].msg.content # FinalResultText
        /\ NumResults = 1
        /\ Cardinality(TextToolRounds) = 2 => NumThoughts = 2

\* the events the adapter answers with messages
ForwardedEvents ==
    LET kept == SelectSeq(log, LAMBDA e : IsEvent(e, "assistant") \/ IsEvent(e, "result"))
    IN [i \in 1..Len(kept) |-> kept[i].ev]

\* the messages of the task handed to the sink or queued for it, without
\* the error message of the catch block
TaskMessages ==
    LET posted == SelectSeq(Sends, LAMBDA e : ~IsErrorMsg(e.msg))
    IN [i \in 1..Len(posted) |-> posted[i].msg] \o outbox

IsPrefix(a, b) == Len(a) <= Len(b) /\ SubSeq(b, 1, Len(a)) = a

(* C9: tool_use and tool_result events produce no client message: the       *)
(* messages of a request are those of its assistant and result events       *)
(* alone, and every thought carries the text of a text block of a response. *)
C9_ToolEventsNotForwarded ==
    TaskStarted =>
        LET got      == TaskMessages
            expected == AdapterMessagesOfAll(ForwardedEvents)
            texts    == ResponseTexts
        IN /\ IsPrefix(got, expected)
           /\ (~SomeSendFailed /\ pc # "catch") => got = expected
           /\ \A i \in 1..Len(got) :
                 IsThoughtMsg(got[i]) => got[i].content \in texts

C9_Witness ==
    /\ pc = "done"
    /\ \E i \in 1..Len(log) : IsEvent(log[i], "tool_use")
    /\ \E i \in 1..Len(log) : FailedToolCall(log[i])
    /\ NumThoughts >= 2
    /\ NumResults = 1

\* the three wire shapes of types/websocket.ts
WireShape(m) ==
    \/ DOMAIN m = {"type", "content"} /\ m.type = "thought"
    \/ DOMAIN m = {"type", "data"} /\ m.type = "result"
    \/ DOMAIN m = {"type", "message"} /\ m.type = "error"

(* C10: every message handed to the sink, by the adapter or by the request  *)
(* validation, has one of the three wire shapes; an error has type error    *)
(* and a message field.                                                     *)
C10_WireShapes ==
    \A i \in 1..Len(Sends) : WireShape(Sends[i].msg)

----------------------------------------------------------------------------
\* the text of an error message
ErrorText(m) == IF "error" \in DOMAIN m THEN m.error ELSE m.message

\* messages of the exceptions raised by the tool provider's client and by the
\* completion service
RawExceptionMessages ==
    {RpcErrorMessage(o) : o \in RpcFailures} \cup {ServiceErrorMessage}

\* words that carry an HTTP status, a response body or a stack trace
ProviderDetail == {"status", "statusText", "body", "stack"}

(* C11: the text of every error message posted to the client is a           *)
(* normalized reason: it is not the raw message of an exception of the tool *)
(* provider or of the completion service and carries no HTTP status, no     *)
(* response body and no stack trace.                                        *)
C11_ErrorTextNormalized ==
    \A i \in 1..Len(Sends) :
        (Sends[i].ok /\ IsErrorMsg(Sends[i].msg)) =>
            LET text == ErrorText(Sends[i].msg) IN
            /\ text \notin RawExceptionMessages
            /\ \A t \in 1..Len(text) : text[t] \notin ProviderDetail

\* no span of the text is valid JSON: direct parse, fenced block and
\* brace-delimited span all fail
NoValidSpan(text) ==
    \A i \in 1..Len(text) : \A j \in i..Len(text) : ~JsonValid(SubSeq(text, i, j))

IsErrorObject(d) ==
    \/ "error" \in DOMAIN d
    \/ "type" \in DOMAIN d /\ d.type = "error"

(* C12: when the final text of a successful run holds no valid structured   *)
(* data, exactly one result message is posted and its data wraps the raw    *)
(* text as a plain-text payload; it is not an error object.                 *)
C12_UnparseableTextWrapped ==
    (pc = "done" /\ FinalSuccess /\ ~SomeSendFailed /\ NoValidSpan(FinalResultText)) =>
        /\ NumResults = 1
        /\ LET data == Sends[Len(Sends)].msg.data IN
           /\ ~IsErrorObject(data)
           /\ data = [type |-> "text", content |-> FinalResultText]

DiscoverCalls == {i \in 1..Len(log) : IsCall(log[i], "discover")}

\* the catalog made of a listing reply
ListedCatalog(reply) == IF "tools" \in DOMAIN reply THEN reply.tools ELSE <<>>

\* every completion-service call and every tool call comes after a
\* successful listing; Param(catalog) is the request a completion-service
\* call sends for the listed catalog
CallsFollowDiscovery(Param(_)) ==
    \A i \in 1..Len(log) :
        (IsCall(log[i], "service") \/ IsCall(log[i], "tool")) =>
            \E d \in 1..(i - 1) :
                /\ IsCall(log[d], "discover")
                /\ log[d].ok
                /\ IsCall(log[i], "service") => log[i].id = Param(ListedCatalog(log[d].id))

Unchanged(catalog) == [model |-> "claude-haiku-4-5-20251001", tools |-> catalog]

(* C13 as stated: every request lists the tools exactly once, before its    *)
(* first completion-service call and before any tool call, and every        *)
(* completion-service call carries the listed catalog unchanged.            *)
C13_DiscoverOnceCatalogUnchanged ==
    TaskStarted =>
        /\ Cardinality(DiscoverCalls) <= 1
        /\ pc \in {"loop", "assistant", "tool", "returned"} =>
              Cardinality(DiscoverCalls) = 1
        /\ CallsFollowDiscovery(Unchanged)

\* the tools parameter for a listed catalog: the catalog, or no parameter
\* when the catalog is empty
CatalogOrNothing(catalog) ==
    IF catalog = <<>>
    THEN [model |-> "claude-haiku-4-5-20251001"]
    ELSE [model |-> "claude-haiku-4-5-20251001", tools |-> catalog]

(* C13 amended: a request lists the tools at most once, and exactly once    *)
(* before its first completion-service call and before any tool call; every *)
(* completion-service call carries the listed catalog unchanged when it is  *)
(* not empty and no tools parameter when it is empty.                       *)
C13_DiscoverOnceCatalogOrNothing ==
    TaskStarted =>
        /\ Cardinality(DiscoverCalls) <= 1
        /\ pc \in {"loop", "assistant", "tool", "returned"} =>
              Cardinality(DiscoverCalls) = 1
        /\ CallsFollowDiscovery(CatalogOrNothing)

\* a request with a listed catalog ran two rounds and a tool call
C13_Witness ==
    /\ pc = "done"
    /\ tools # <<>>
    /\ NumServiceCalls >= 2
    /\ \E i \in 1..Len(log) : IsCall(log[i], "tool")

\* the tool listing failed, or the tool client could not be built
DiscoveryFailed ==
    \/ \E i \in DiscoverCalls : ~log[i].ok
    \/ err # NoError /\ err = <<"Missing Supabase MCP configuration.">>

(* C14: when the tool listing fails (provider unreachable, non-success      *)
(* status, error envelope, unreadable body) or the credentials are missing, *)
(* the request ends in failure at once: no completion-service call, no tool *)
(* call, no event and no thought; only the error message is posted.         *)
C14_DiscoveryFailureIsFatal ==
    DiscoveryFailed =>
        /\ \A i \in 1..Len(log) :
              \/ IsCall(log[i], "discover")
              \/ IsSend(log[i]) /\ IsErrorMsg(log[i].msg)
              \/ log[i].kind = "logged"
        /\ iteration = 0
        /\ pc \in {"catch", "done", "rejected", "observed"}
        /\ pc = "done" => NumErrors = 1

C14_Witness ==
    /\ pc = "done"
    /\ \E i \in DiscoverCalls : ~log[i].ok
    /\ NumErrors = 1

(* C15: when a completion-service call fails, the request ends in failure   *)
(* at once: after the failed call there is no completion-service call, no   *)
(* tool call and no event, only the error message.                          *)
C15_ServiceFailureIsFatal ==
    \A i \in 1..Len(log) :
        (IsCall(log[i], "service") /\ ~log[i].ok) =>
            /\ \A j \in (i + 1)..Len(log) :
                  \/ IsSend(log[j]) /\ IsErrorMsg(log[j].msg)
                  \/ log[j].kind = "logged"
            /\ pc \in {"catch", "done", "rejected", "observed"}
            /\ pc = "done" => IsErrorMsg(log[Len(log)].msg)

\* the call of a later round failed, after a tool call, and the error
\* message was posted
C15_Witness ==
    /\ pc = "done"
    /\ \E i \in 1..Len(log) :
          /\ IsCall(log[i], "service") /\ ~log[i].ok
          /\ \E j \in 1..(i - 1) : IsCall(log[j], "tool")

(* C16: for a valid prompt the handler has answered 200 before the task     *)
(* takes its first step, and that answer stays the same whether the task    *)
(* succeeds, fails or rejects; every outcome is observed: a finished task   *)
(* has posted its terminal message, a rejection is taken by the catch       *)
(* callback, which logs it.                                                 *)
C16_HandlerReturnsWithoutWaiting ==
    /\ pc \notin {"handler", "refused"} => status = 200
    /\ pc = "construct" => log = <<>>
    /\ pc = "done" =>
          LET e == log[Len(log)] IN IsSend(e) /\ e.ok /\ IsTerminalMsg(e.msg)
    /\ pc = "rejected" => ENABLED OnRejection
    /\ pc = "observed" =>
          /\ log[Len(log)].kind = "logged"
          /\ IsSend(log[Len(log) - 1]) /\ ~log[Len(log) - 1].ok

\* the task rejected after a round of the loop and the callback logged it
C16_Witness == pc = "observed" /\ NumServiceCalls >= 1 /\ status = 200

\* the identifiers of the tool calls a task made, in order
ToolCallIds(task) ==
    LET calls == SelectSeq(task.log, LAMBDA e : IsCall(e, "tool"))
    IN [i \in 1..Len(calls) |-> calls[i].id]

\* the contents of the responses a task went on from to tool calls, in order
AnsweredContents(task) ==
    LET idx == SelectSeq([i \in 1..Len(task.log) |-> i],
                         LAMBDA i : /\ IsEvent(task.log[i], "assistant")
                                    /\ \E j \in (i + 1)..Len(task.log) :
                                          IsEvent(task.log[j], "tool_use"))
    IN [i \in 1..Len(idx) |-> task.log[idx[i]].ev.content]

\* the identifiers of the tool_result blocks of the turns that follow the
\* prompt, in order
RECURSIVE ResultIds(_)
ResultIds(turns) ==
    IF turns = <<>> THEN <<>>
    ELSE LET turn == Head(turns) IN
         (IF turn.role = "user"
          THEN [i \in 1..Len(turn.content) |-> turn.content[i].tool_use_id]
          ELSE <<>>) \o ResultIds(Tail(turns))

\* the state of a task is what its own prompt and the answers it received
\* make it, whatever the other task did in between
OwnStateOnly(task) ==
    LET assistantTurns == SelectSeq(task.messages, LAMBDA t : t.role = "assistant")
        inRound == IF task.pc = "tool"
                   THEN [i \in 1..Len(task.toolResults) |->
                            task.toolResults[i].tool_use_id]
                   ELSE <<>>
    IN /\ task.iteration =
              Cardinality({i \in 1..Len(task.log) : IsCall(task.log[i], "service")})
       /\ task.messages # <<>> =>
              task.messages[1] = [role |-> "user", content |-> task.prompt]
       /\ [i \in 1..Len(assistantTurns) |-> assistantTurns[i].content]
              = AnsweredContents(task)
       /\ ResultIds(IF task.messages = <<>> THEN <<>> ELSE Tail(task.messages))
              \o inRound = ToolCallIds(task)
       /\ \A i \in 1..Len(task.log) :
              (IsCall(task.log[i], "discover") \/ IsCall(task.log[i], "tool")) =>
                  task.log[i].session = task.session
       /\ LET posted == SelectSeq(task.log, LAMBDA e : IsSend(e) /\ ~IsErrorMsg(e.msg))
              kept   == SelectSeq(task.log, LAMBDA e : IsEvent(e, "assistant")
                                                        \/ IsEvent(e, "result"))
          IN IsPrefix([i \in 1..Len(posted) |-> posted[i].msg] \o task.outbox,
                      AdapterMessagesOfAll([i \in 1..Len(kept) |-> kept[i].ev]))

(* C17: however two concurrent requests interleave, each one's counter,     *)
(* conversation, session token, events and client messages are those of its *)
(* own prompt and its own answers: the counter counts its own rounds, the   *)
(* conversation holds its own prompt, responses and tool results, every     *)
(* call to the tool provider carries its own session token, which the other *)
(* request does not have, and its messages stem from its own events.        *)
C17_RequestsAreIsolated ==
    parked.id # 0 =>
        /\ OwnStateOnly(Suspended(3 - parked.id))
        /\ OwnStateOnly(parked)
        /\ prompt # parked.prompt
        /\ (session # None /\ parked.session # None) => session # parked.session

\* both tasks are in the middle of their runs, at different rounds
C17_Witness ==
    /\ parked.id = 1
    /\ pc = "assistant" /\ iteration = 3
    /\ parked.pc = "loop" /\ parked.iteration = 2
    /\ session = "uuid_1" /\ parked.session = "uuid_2"

\* the non-empty text blocks of a content array
NonEmptyTexts(content) ==
    SelectSeq(content, LAMBDA b : b.type = "text" /\ b.text # <<>>)

\* the position of the last entry before p that is not a post (0: none)
LastBeforePosts(p) ==
    CHOOSE q \in 0..(p - 1) :
        /\ q = 0 \/ ~IsSend(log[q])
        /\ \A j \in (q + 1)..(p - 1) : IsSend(log[j])

(* C18: the messages of a request are posted in the order of the events and *)
(* text blocks they stem from: the n-th post after an assistant event is    *)
(* the thought of its n-th non-empty text block, the post after a result    *)
(* event is its result, and nothing is posted twice or ahead of its turn.   *)
C18_MessagesInEventOrder ==
    TaskStarted =>
        \A p \in 1..Len(log) :
            (IsSend(log[p]) /\ ~IsErrorMsg(log[p].msg)) =>
                LET q == LastBeforePosts(p) IN
                /\ q > 0
                /\ log[q].kind = "event"
                /\ IF log[q].ev.type = "assistant"
                   THEN LET texts == NonEmptyTexts(log[q].ev.content) IN
                        /\ p - q <= Len(texts)
                        /\ log[p].msg = [type |-> "thought",
                                          content |-> texts[p - q].text]
                   ELSE /\ log[q].ev.type = "result"
                        /\ p - q = 1
                        /\ IsResultMsg(log[p].msg)

\* a response with two text blocks was posted as two thoughts and a result
C18_Witness ==
    /\ pc = "done"
    /\ NumThoughts >= 3
    /\ NumResults = 1
    /\ \E i \in 1..Len(log) :
          IsEvent(log[i], "assistant") /\ Len(NonEmptyTexts(log[i].ev.content)) = 2

(* C20: the generator yields at most one terminal event (result, success or *)
(* error) in a run and yields nothing, and calls nothing, after it.         *)
C20_OneTerminalEventLast ==
    \A i \in 1..Len(log) :
        IsEvent(log[i], "result") =>
            \A j \in (i + 1)..Len(log) : log[j].kind \notin {"event", "call"}

\* the run ended with the budget-exceeded event and its message was posted
C20_Witness ==
    /\ pc = "done"
    /\ CapReached
    /\ NumResults = 1

\* the stream ended by itself: nothing was thrown and every post succeeded
StreamEnded == pc = "done" /\ err = NoError

(* C19: in the LangGraph variant a request is answered with a single JSON   *)
(* response: whatever steps the stream yields, once it has ended exactly    *)
(* one message of type result was posted, and it was the last message.      *)
C19_LangGraphSingleResult ==
    /\ \A i \in 1..Len(Sends) : IsResultMsg(Sends[i].msg) => i = Len(Sends)
    /\ StreamEnded => NumResults = 1

-----------------------------------------------------------------------------
\* the tool_use blocks of a content array, in block order
ToolUses(content) == SelectSeq(content, LAMBDA b : b.type = "tool_use")

\* the events and tool calls logged after position q up to the next
\* completion-service call (or the end of the log)
RoundAfter(q) ==
    LET stop == IF \E j \in (q + 1)..Len(log) : IsCall(log[j], "service")
                THEN (CHOOSE j \in (q + 1)..Len(log) :
                        /\ IsCall(log[j], "service")
                        /\ \A m \in (q + 1)..(j - 1) : ~IsCall(log[m], "service")) - 1
                ELSE Len(log)
    IN SelectSeq(SubSeq(log, q + 1, stop),
                 LAMBDA e : e.kind = "event" \/ IsCall(e, "tool"))

\* a later completion-service call exists
CalledAgainAfter(q) == \E j \in (q + 1)..Len(log) : IsCall(log[j], "service")

(* C21: a response that holds tool-call blocks is not treated as terminal:  *)
(* what follows its assistant event is, for each block in block order, the  *)
(* tool_use event, the one invocation and the tool_result event of that     *)
(* block; no success event follows it, and the next completion-service call *)
(* is made only when every block has been invoked.                          *)
C21_ToolCallsAllInvoked ==
    \A q \in 1..Len(log) :
        (IsEvent(log[q], "assistant") /\ ToolUses(log[q].ev.content) # <<>>) =>
            LET calls == ToolUses(log[q].ev.content)
                round == RoundAfter(q)
            IN /\ \A j \in 1..Len(round) :
                    LET k == ((j - 1) \div 3) + 1
                        m == (j - 1) % 3
                    IN IF k > Len(calls)
                       THEN j = 3 * Len(calls) + 1 /\ CapEvent(round[j])
                       ELSE CASE m = 0 -> /\ IsEvent(round[j], "tool_use")
                                          /\ round[j].ev.name = calls[k].name
                                          /\ round[j].ev.input = calls[k].input
                              [] m = 1 -> /\ IsCall(round[j], "tool")
                                          /\ round[j].id = calls[k].id
                              [] m = 2 -> /\ IsEvent(round[j], "tool_result")
                                          /\ round[j].ev.name = calls[k].name
               /\ CalledAgainAfter(q) => Len(round) = 3 * Len(calls)

-----------------------------------------------------------------------------
\* the request is over: the adapter's promise is settled
RequestOver == pc \in {"done", "rejected", "observed"}

(* C22: every request terminates.  When every call and every post that was  *)
(* started returns or fails, the request reaches its end (final success,    *)
(* fatal error or iteration cap), and it never makes more than 15           *)
(* completion-service calls.                                                *)
C22_RequestTerminates ==
    /\ <>RequestOver
    /\ [](NumServiceCalls <= MAX_ITERATIONS)

\* a request that ended at the iteration cap, after its 15th call
C22_Witness ==
    /\ pc = "done"
    /\ iteration = MAX_ITERATIONS
    /\ NumServiceCalls = MAX_ITERATIONS
    /\ CapReached
    /\ NumErrors = 1

-----------------------------------------------------------------------------
\* the loop stands before a completion-service call that is not the first
BeforeNextCall == pc = "loop" /\ iteration >= 1

\* the turn at position i answers the assistant turn before it: one
\* tool_result entry per requested call, with its id, in the order requested
AnswersTurnBefore(i) ==
    LET calls   == ToolUses(messages[i - 1].content)
        entries == messages[i].content
    IN /\ messages[i].role = "user"
       /\ Len(entries) = Len(calls)
       /\ \A k \in 1..Len(calls) :
             /\ entries[k].type = "tool_result"
             /\ entries[k].tool_use_id = calls[k].id

(* C23: at each completion-service call after the first, the conversation   *)
(* holds exactly one tool_result entry for every tool call requested in the *)
(* preceding assistant turn, with that call's id, in the order requested,   *)
(* whether the call succeeded or failed; the same holds for every earlier   *)
(* assistant turn of the conversation.                                      *)
C23_EveryToolCallAnswered ==
    BeforeNextCall =>
        LET n == Len(messages) IN
        /\ n >= 3
        /\ messages[n - 1] = [role |-> "assistant", content |-> response.content]
        /\ ToolUses(response.content) # <<>>
        /\ \A i \in 2..n : messages[i - 1].role = "assistant" => AnswersTurnBefore(i)
        /\ \A i \in 1..(n - 1) : messages[i].role = "user" =>
                                      messages[i + 1].role = "assistant"

\* a round of two calls is in the conversation, answered call by call, and
\* the loop stands before the next completion-service call
C23_Witness ==
    /\ BeforeNextCall
    /\ AdapterIdle
    /\ LET entries == messages[Len(messages)].content IN
       /\ Len(entries) = 2
       /\ entries[1].tool_use_id # entries[2].tool_use_id

-----------------------------------------------------------------------------
\* the turn the conversation starts with
PromptTurn == [role |-> "user", content |-> prompt]

(* C24: the conversation is only extended: in every step the conversation   *)
(* before it is a prefix of the conversation after it, so the conversation  *)
(* of any completion-service call is a prefix of that of every later call,  *)
(* and its first turn is always the user's prompt.                          *)
C24_ConversationOnlyGrows ==
    [][/\ IsPrefix(messages, messages')
       /\ messages' # <<>> => messages'[1] = PromptTurn]_vars

\* a conversation of two answered rounds behind the prompt
C24_Witness ==
    /\ Len(messages) >= 5
    /\ messages[1] = PromptTurn
    /\ NumServiceCalls >= 3

-----------------------------------------------------------------------------
\* the texts of the text blocks of a content array, in block order
TextsOf(content) ==
    LET blocks == SelectSeq(content, LAMBDA b : b.type = "text")
    IN [i \in 1..Len(blocks) |-> blocks[i].text]

\* texts put one after the other with nothing between them
RECURSIVE Concat(_)
Concat(texts) ==
    IF texts = <<>> THEN <<>> ELSE Head(texts) \o Concat(Tail(texts))

\* texts put one after the other with a line break between two of them
RECURSIVE Joined(_)
Joined(texts) ==
    IF Len(texts) <= 1 THEN Concat(texts)
    ELSE Head(texts) \o <<"n">> \o Joined(Tail(texts))

\* the position of the last assistant event before position i (0: none)
RECURSIVE LastAssistantBefore(_)
LastAssistantBefore(i) ==
    IF i <= 1 THEN 0
    ELSE IF IsEvent(log[i - 1], "assistant") THEN i - 1
    ELSE LastAssistantBefore(i - 1)

\* the content of the response the success event at position i ends
TerminalContent(i) == log[LastAssistantBefore(i)].ev.content

(* C25 as stated: the raw result of the final success is the concatenation, *)
(* in block order, of the text blocks of the terminal response and of       *)
(* nothing else.                                                            *)
C25_ResultIsConcatenation ==
    \A i \in 1..Len(log) :
        SuccessEvent(log[i]) => log[i].ev.result = Concat(TextsOf(TerminalContent(i)))

(* C25 amended: the raw result of the final success is the texts of the     *)
(* text blocks of the terminal response, in block order, joined with one    *)
(* line break between consecutive blocks, and nothing else: no text of      *)
(* earlier rounds and no tool-call content.                                 *)
C25_ResultIsTextsJoined ==
    \A i \in 1..Len(log) :
        SuccessEvent(log[i]) => log[i].ev.result = Joined(TextsOf(TerminalContent(i)))

\* a final success whose response had several text blocks, after a round
\* that had text of its own
C25_Witness ==
    /\ pc = "done"
    /\ NumServiceCalls >= 2
    /\ TextToolRounds # {}
    /\ \E i \in 1..Len(log) :
          SuccessEvent(log[i]) /\ Len(TextsOf(TerminalContent(i))) >= 2

-----------------------------------------------------------------------------
\* the tool calls logged between positions q and i
ToolCallsBetween(q, i) == {j \in (q + 1)..(i - 1) : IsCall(log[j], "tool")}

(* C26: at most one outbound call of a request is under way at any time:    *)
(* every tool invocation stands between its tool_use event and its          *)
(* tool_result event, so it has returned or failed before the next one      *)
(* starts, and a completion-service call after the first is made only when  *)
(* every invocation of the round before it has finished: the calls since    *)
(* the last response are as many as its tool_use blocks and the last of     *)
(* them has yielded its tool_result.                                        *)
C26_OneCallAtATime ==
    \A i \in 1..Len(log) :
        /\ IsCall(log[i], "tool") =>
              /\ i > 1 /\ IsEvent(log[i - 1], "tool_use")
              /\ i < Len(log) /\ IsEvent(log[i + 1], "tool_result")
              /\ log[i + 1].ev.name = log[i - 1].ev.name
        /\ (IsCall(log[i], "service") /\ LastAssistantBefore(i) > 0) =>
              LET q == LastAssistantBefore(i) IN
              /\ Cardinality(ToolCallsBetween(q, i)) = Len(ToolUses(log[q].ev.content))
              /\ \A j \in ToolCallsBetween(q, i) : IsEvent(log[j + 1], "tool_result")
              /\ \A j \in (q + 1)..(i - 1) :
                    IsEvent(log[j], "tool_use") => IsCall(log[j + 1], "tool")

\* a round of two invocations, then another completion-service call
C26_Witness ==
    /\ pc = "done"
    /\ \E i \in 1..Len(log) :
          /\ IsCall(log[i], "service")
          /\ LastAssistantBefore(i) > 0
          /\ Cardinality(ToolCallsBetween(LastAssistantBefore(i), i)) = 2

-----------------------------------------------------------------------------
\* the thoughts of the response yielded at position q have all been handed
\* to the connection, one after the other, before position i
ThoughtsPostedBetween(q, i) ==
    LET texts == NonEmptyTexts(log[q].ev.content) IN
    /\ q + Len(texts) < i
    /\ \A k \in 1..Len(texts) :
          /\ IsSend(log[q + k])
          /\ log[q + k].ok
          /\ log[q + k].msg = sendThought(texts[k].text)

(* C27: messages are pushed as they arrive, not batched: when a tool         *)
(* invocation of round k starts, and when the completion-service call of    *)
(* round k+1 is made, every thought of the response of round k has already  *)
(* been posted.                                                             *)
C27_ThoughtsBeforeNextCall ==
    \A i \in 1..Len(log) :
        (IsCall(log[i], "tool") \/ IsCall(log[i], "service")) =>
            LET q == LastAssistantBefore(i) IN
            q > 0 => ThoughtsPostedBetween(q, i)

\* a response with text and a tool call: its thought was posted, then the
\* tool was invoked, then the service was called again
C27_Witness ==
    \E q \in TextToolRounds :
        /\ q + 4 <= Len(log)
        /\ IsSend(log[q + 1]) /\ IsThoughtMsg(log[q + 1].msg)
        /\ IsEvent(log[q + 2], "tool_use")
        /\ IsCall(log[q + 3], "tool")
        /\ \E i \in (q + 4)..Len(log) : IsCall(log[i], "service")

-----------------------------------------------------------------------------
\* the adapter has dealt with the event at position q: the generator was
\* resumed and has yielded or called something after it
DealtWith(q) == \E j \in (q + 1)..Len(log) : log[j].kind \in {"event", "call"}

\* the posts that follow position q are the thoughts of `texts`, one each, in
\* order and unchanged, and nothing else is posted before the next event
PostedAsThoughts(q, texts) ==
    /\ q + Len(texts) < Len(log)
    /\ \A k \in 1..Len(texts) :
          /\ IsSend(log[q + k])
          /\ log[q + k].msg = [type |-> "thought", content |-> texts[k]]
    /\ ~IsSend(log[q + Len(texts) + 1])

\* the texts that are not empty, in order
NonEmpty(texts) == SelectSeq(texts, LAMBDA t : t # <<>>)

-----------------------------------------------------------------------------
\* the objects of the fenced json blocks of a text: the content between a
\* ```json fence and the next closing fence, when it is a valid JSON object
FencedObjects(text) ==
    {JsonValue(SubSeq(text, i + 1, k - 1)) :
        <<i, k>> \in {<<a, b>> \in (1..Len(text)) \X (1..Len(text)) :
                        /\ a < b
                        /\ text[a] = "F"
                        /\ text[b] = "f"
                        /\ \A m \in (a + 1)..(b - 1) : text[m] \notin {"F", "f"}
                        /\ JsonValid(SubSeq(text, a + 1, b - 1))
                        /\ Trim(SubSeq(text, a + 1, b - 1))[1] = "{"}}

(* C29: a final text that is not valid JSON by itself and holds a fenced    *)
(* json block whose content is a valid JSON object is answered with a       *)
(* result whose data is equal to that object.                               *)
C29_FencedObjectExtracted ==
    \A i \in 2..Len(log) :
        (/\ IsSend(log[i]) /\ IsResultMsg(log[i].msg)
         /\ SuccessEvent(log[i - 1])
         /\ ~JsonValid(log[i - 1].ev.result)
         /\ FencedObjects(log[i - 1].ev.result) # {}) =>
            log[i].msg.data \in FencedObjects(log[i - 1].ev.result)

-----------------------------------------------------------------------------
\* the listing at position d brought no tools list: the provider was not
\* reached, the reply was not a result, or the result has no tools field
NoToolsList(d) == IsCall(log[d], "discover") /\ "tools" \notin DOMAIN log[d].id

\* the credentials of the tool provider or of the service are absent
CredentialsAbsent ==
    err \in {<<"Missing Supabase MCP configuration.">>,
             <<"Could not resolve authentication method.">>}

(* C30: discovery fails, and the request ends in failure, when the provider *)
(* is unreachable, when its listing reply is malformed (a reply whose       *)
(* result carries no tools list included) and when the credentials are      *)
(* absent: the listing is then not taken as a catalog, no completion-       *)
(* service call and no tool invocation is made, and no result is posted.    *)
C30_DiscoveryFailsWithoutToolsList ==
    /\ \A d \in 1..Len(log) :
          NoToolsList(d) =>
              /\ ~log[d].ok
              /\ \A j \in (d + 1)..Len(log) :
                    /\ ~IsCall(log[j], "service")
                    /\ ~IsCall(log[j], "tool")
                    /\ IsSend(log[j]) => IsErrorMsg(log[j].msg)
    /\ CredentialsAbsent =>
          \A j \in 1..Len(log) :
              /\ log[j].kind # "call"
              /\ IsSend(log[j]) => IsErrorMsg(log[j].msg)

-----------------------------------------------------------------------------
\* the messages of the errors rpcCall throws: the provider is not reached,
\* the status is not 2xx, the body is not JSON, the reply is an error
\* envelope
RpcErrorMessages == {RpcErrorMessage(f) : f \in RpcFailures}

\* the tool_result entries of the round of the call at position i: those of
\* the turn appended after the round, or those of the round in progress
EntriesOfRound(i) ==
    LET r == ServiceCallsUpTo(i) IN
    IF Len(messages) >= 2 * r + 1 THEN messages[2 * r + 1].content ELSE toolResults

(* C31: a failed tool invocation is handled in one way whatever made it     *)
(* fail (a status that is not 2xx, a body that does not parse, a JSON-RPC   *)
(* error envelope): the tool_result event that follows the call carries the *)
(* error, the conversation gets a tool_result entry marked is_error with    *)
(* that error, and the loop goes on as after a call that succeeded: the     *)
(* error does not reach the adapter, and what follows is the next           *)
(* invocation, the next completion-service call or the budget event.        *)
C31_ToolFailuresHandledAlike ==
    \A i \in 1..Len(log) :
        FailedToolCall(log[i]) =>
            /\ i < Len(log)
            /\ IsEvent(log[i + 1], "tool_result")
            /\ DOMAIN log[i + 1].ev.result = {"error"}
            /\ log[i + 1].ev.result.error \in RpcErrorMessages
            /\ \E k \in 1..Len(EntriesOfRound(i)) :
                  EntriesOfRound(i)[k] =
                      [type |-> "tool_result", tool_use_id |-> log[i].id,
                       content |-> <<"Error executing tool:">>
                                       \o log[i + 1].ev.result.error,
                       is_error |-> TRUE]
            /\ err \notin RpcErrorMessages
            /\ i + 2 <= Len(log) =>
                  \/ IsEvent(log[i + 2], "tool_use")
                  \/ IsCall(log[i + 2], "service")
                  \/ CapEvent(log[i + 2])

\* an invocation answered with a status that is not 2xx, and a
\* completion-service call after it
C31_Witness ==
    \E i \in 1..Len(log) :
        /\ FailedToolCall(log[i])
        /\ i + 2 <= Len(log)
        /\ log[i + 1].ev.result.error = RpcErrorMessage("http_error")
        /\ IsCall(log[i + 2], "service")

-----------------------------------------------------------------------------
\* the tool calls logged after position q up to position i
ToolCallsUpTo(q, i) == Cardinality({j \in (q + 1)..i : IsCall(log[j], "tool")})

(* C32: the tool client sends one request per listing and per invocation:   *)
(* the listing is requested once, and the n-th tool request after a         *)
(* response is the request for the n-th tool_use block of that response, so *)
(* no request, failed or not, is sent a second time and a tool is called    *)
(* again only when a later response asks for it again.                      *)
C32_OneRequestPerCall ==
    \A i \in 1..Len(log) :
        /\ IsCall(log[i], "discover") => i = 1
        /\ IsCall(log[i], "tool") =>
              LET q     == LastAssistantBefore(i)
                  calls == ToolUses(log[q].ev.content)
                  n     == ToolCallsUpTo(q, i)
              IN /\ n <= Len(calls)
                 /\ log[i].id = calls[n].id

\* a tool whose call failed is called again in a later round, for another
\* tool_use block of that name
C32_Witness ==
    \E i \in 1..Len(log) :
        /\ FailedToolCall(log[i])
        /\ \E j \in (i + 1)..Len(log) :
              /\ IsCall(log[j], "tool")
              /\ log[j].id # log[i].id
              /\ log[j - 1].ev.name = log[i - 1].ev.name
              /\ ServiceCallsUpTo(j) > ServiceCallsUpTo(i)

-----------------------------------------------------------------------------
\* the payload of the first tool_result event of the log
ReturnedPayload ==
    LET i == CHOOSE j \in 1..Len(log) :
                /\ IsEvent(log[j], "tool_result")
                /\ \A m \in 1..(j - 1) : ~IsEvent(log[m], "tool_result")
    IN log[i].ev.result

\* the one rule of the claim: a string unchanged, a content array as the
\* texts of its items joined by newlines (an item without text serialized),
\* anything else serialized
Normalized(result) ==
    CASE result.shape = "string" -> result.text
      [] result.shape = "content_array" ->
            Joined([i \in 1..Len(result.content) |->
                       IF /\ "text" \in DOMAIN result.content[i]
                          /\ result.content[i].text # <<>>
                       THEN result.content[i].text
                       ELSE <<"json(item)">>])
      [] OTHER -> <<"json(result)">>

(* C33: every payload a tool call returns is put into the conversation as a *)
(* string made by one total rule: a string unchanged, a content array as    *)
(* the newline-joined texts of its items (an item without text serialized), *)
(* any other payload serialized; whatever the payload, an absent result     *)
(* included, the entry appended has a content and it is that string.        *)
C33_PayloadBecomesString ==
    (pc = "loop" /\ iteration = 1) =>
        LET entry == messages[Len(messages)].content[1] IN
        /\ "content" \in DOMAIN entry
        /\ "is_error" \notin DOMAIN entry
        /\ entry.content = Normalized(ReturnedPayload)

\* the calls one task has made to the tool provider
ProviderCalls(task) ==
    SelectSeq(task.log, LAMBDA e : IsCall(e, "discover") \/ IsCall(e, "tool"))

\* the task of one request, running or suspended
TaskOf(id) == IF parked.id = id THEN parked ELSE Suspended(id)

(* C34: the listing and every tool call of one tool client go out under one *)
(* session identifier, the one chosen when the client was constructed: at   *)
(* every moment all the provider calls a request has made carry the         *)
(* identifier its client has now, so that the identifier has not changed    *)
(* since the first of them, and the two requests, each with a client of its *)
(* own, have different ones.                                                *)
C34_OneSessionPerClient ==
    \A id \in {1, 2} :
        LET task  == TaskOf(id)
            calls == ProviderCalls(task)
        IN /\ \A i \in 1..Len(calls) :
                  calls[i].session = task.session /\ calls[i].session # None
           /\ task.session # None => task.session # TaskOf(3 - id).session

\* both requests have listed the tools and called a tool
C34_Witness ==
    /\ parked.id # 0
    /\ Len(ProviderCalls(parked)) >= 2
    /\ Len(ProviderCalls(Suspended(3 - parked.id))) >= 2
    /\ ProviderCalls(parked)[2].target = "tool"
    /\ ProviderCalls(Suspended(3 - parked.id))[2].target = "tool"


\* the roles of a conversation, in order
Roles(list) == [i \in 1..Len(list) |-> list[i].role]

\* user, assistant, user, ..., user: n turns, n odd
Alternating(n) == [i \in 1..n |-> IF i % 2 = 1 THEN "user" ELSE "assistant"]

(* C35: whenever the loop is about to call the completion service for round *)
(* k = iteration + 1 (1..15), the conversation it hands over has exactly    *)
(* 2k - 1 turns, and their roles alternate user, assistant, ..., user.      *)
C35_ConversationAlternates ==
    (pc = "loop" /\ iteration < MAX_ITERATIONS) =>
        /\ Len(messages) = 2 * (iteration + 1) - 1
        /\ Roles(messages) = Alternating(2 * (iteration + 1) - 1)

\* the loop is about to make the fifteenth call, with 29 turns
C35_Witness ==
    /\ pc = "loop" /\ iteration = MAX_ITERATIONS - 1 /\ outbox = <<>>
    /\ Len(messages) = 2 * MAX_ITERATIONS - 1
    /\ ENABLED CallService


\* the generator moves on from the response it has yielded: the step appends
\* an event to the log
GeneratorResumes == Len(log') > Len(log) /\ log'[Len(log) + 1].kind = "event"

\* every response received so far asked for a tool
AllRequestedTools ==
    \A i \in 1..Len(log) :
        IsEvent(log[i], "assistant") => ToolUses(log[i].ev.content) # <<>>

CapPosition ==
    IF CapReached THEN CHOOSE i \in 1..Len(log) : CapEvent(log[i]) ELSE 0

\* the identifiers of the tool calls made between positions q and i
CallIdsBetween(q, i) ==
    LET calls == SelectSeq(SubSeq(log, q + 1, i - 1), LAMBDA e : IsCall(e, "tool"))
    IN [n \in 1..Len(calls) |-> calls[n].id]

(* C37: the budget-exceeded event is yielded only after exactly fifteen     *)
(* completion-service calls, after each tool call of the fifteenth response *)
(* was invoked (once, in the order of the blocks, its tool_result event     *)
(* yielded) and the results were appended to the conversation as its last   *)
(* turn, and no completion-service call follows it.                         *)
C37_CapAfterLastRound ==
    CapReached =>
        LET i    == CapPosition
            q    == LastAssistantBefore(i)
            uses == ToolUses(log[q].ev.content)
            ids  == [n \in 1..Len(uses) |-> uses[n].id]
            last == messages[Len(messages)]
        IN /\ ServiceCallsUpTo(i) = MAX_ITERATIONS
           /\ ServiceCallsUpTo(q) = MAX_ITERATIONS
           /\ uses # <<>>
           /\ CallIdsBetween(q, i) = ids
           /\ IsEvent(log[i - 1], "tool_result")
           /\ Len(messages) = 2 * MAX_ITERATIONS + 1
           /\ messages[Len(messages) - 1] =
                  [role |-> "assistant", content |-> log[q].ev.content]
           /\ last.role = "user"
           /\ [n \in 1..Len(last.content) |-> last.content[n].tool_use_id] = ids
           /\ \A n \in 1..Len(last.content) : last.content[n].type = "tool_result"
           /\ \A j \in (i + 1)..Len(log) : log[j].kind \notin {"event", "call"}

\* the cap was hit after a fifteenth response with two tool calls
C37_Witness ==
    /\ CapReached
    /\ Len(messages) = 2 * MAX_ITERATIONS + 1
    /\ Len(messages[Len(messages)].content) = 2
    /\ Len(CallIdsBetween(LastAssistantBefore(CapPosition), CapPosition)) = 2


\* the agent loop was started: its client was constructed or a call made
LoopStarted ==
    \/ pc \notin {"handler", "refused"}
    \/ session # None
    \/ \E i \in 1..Len(log) : log[i].kind \in {"call", "event"}

(* C38: once handleMessage has refused a message (no body, no JSON object,  *)
(* no string prompt, a prompt of whitespace), exactly one message has been  *)
(* handed to the connection, an error message, the status returned is 400,  *)
(* and the agent loop was not started: no client, no listing, no call.      *)
C38_InvalidMessageRefusedOnce ==
    pc = "refused" =>
        /\ Len(Sends) = 1
        /\ IsErrorMsg(Sends[1].msg)
        /\ status = 400
        /\ ~LoopStarted


\* the invocations of the operation so far
Invocations == SelectSeq(log, LAMBDA e : IsCall(e, "operation"))

\* how the promise of executeWithRetry has settled
Settled == log[Len(log)].ev

(* C39: executeWithRetry invokes the operation at most maxRetries times and *)
(* never after a success; it resolves exactly when an invocation succeeded, *)
(* at once and with its value; after maxRetries failures it rejects with    *)
(* the error of the last of them; with maxRetries of 0 or less it rejects   *)
(* without having invoked the operation.                                    *)
C39_RetryBounded ==
    LET n == Len(Invocations) IN
    /\ n <= (IF ti > 0 THEN ti ELSE 0)
    /\ \A i \in 1..(n - 1) : ~Invocations[i].outcome.ok
    /\ \A i \in 1..n : Invocations[i].attempt = i - 1
    /\ (n > 0 /\ Invocations[n].outcome.ok) =>
           /\ pc = "retry_returned"
           /\ Settled = [type |-> "returned", value |-> Invocations[n].outcome.value]
    /\ pc = "retry_returned" => (n > 0 /\ Invocations[n].outcome.ok)
    /\ (n = ti /\ ti > 0 /\ ~Invocations[n].outcome.ok) =>
           /\ pc = "retry_thrown"
           /\ Settled = [type |-> "thrown", error |-> Invocations[n].outcome.error]
    /\ (pc = "retry_thrown" /\ ti > 0) => (n = ti /\ ~Invocations[n].outcome.ok)
    /\ ti <= 0 => (n = 0 /\ pc \in {"retry_enter", "retry_thrown"})

\* the first attempts failed with one error, the last one with another, and
\* the promise was rejected with the last
C39_Witness ==
    /\ pc = "retry_thrown" /\ ti = 3
    /\ Len(Invocations) = 3
    /\ Invocations[1].outcome.error = "timeout"
    /\ Invocations[3].outcome.error = "refused"
    /\ Settled.error = "refused"


====
